---------------------------- MODULE Spec2Model ----------------------------
(***************************************************************************)
(* Behaviour of the Asena framework as its documentation site describes   *)
(* it: the HTTP middleware chain (docs "Middleware", "Controllers",       *)
(* "Validation"), WebSocket namespaces ("WebSocket"), the IoC container  *)
(* (component lifecycle, scopes, @Strategy: "Dependency Injection",       *)
(* "Services") and the Ulak message broker ("Ulak").  The                 *)
(* repository holds the documentation only, so every definition below is  *)
(* translated from the documented behaviour and the documented examples.  *)
(***************************************************************************)
EXTENDS Integers, Sequences, FiniteSets, TLC

(***************************************************************************)
(* Bounds of the model.                                                    *)
(***************************************************************************)
\* most middlewares declared at one level (global, pattern, controller, route)
MaxPerLevel == 2

\* most WebSocket connections of one namespace
MaxConn == 2
\* most middlewares in the middlewares array of a @WebSocket service
MaxWsMw == 2
\* most messages broadcast (ws.publish, this.to, this.in)
MaxMsg == 1
\* most requests served after the application has started
MaxServed == 1
\* most components registered in the container of the @Strategy examples
MaxRegistered == 3
\* most operations in one ulak.bulkSend call
MaxOps == 2
\* most entries in the middlewares array of the @Config class
MaxEntries == 3
\* most @Config classes defined in one application
MaxConfigs == 3
\* most requests handled under the @Config class in use
MaxCfgRequests == 3
\* the capacity option of the rate limiter (its documented values are 5, 50 and 100)
Capacity == 5
\* most requests handled by the application that throws HttpException
MaxExcRequests == 2
\* most issues of one ZodError
MaxIssues == 2
\* most errors given to onError
MaxMapped == 2
\* most items of one order
MaxItems == 2

VARIABLES
    \* ---- HTTP request handling ----
    adapter,     \* "Ergenecore" or "Hono": the adapter the application runs on
    route,       \* the matched route's declarations (middlewares per level, validator)
    bodyValid,   \* whether the request body satisfies the validator's schema
    chain,       \* the steps of the request, in execution order
    pos,         \* index in chain of the step that runs next (going down) or resumes next (going up)
    phase,       \* "idle" | "down" (towards the handler) | "up" (returning) | "done"
    trace,       \* what ran for this request, in order
    called,      \* indices of the middlewares that have called next()
    stopAt,      \* index of the middleware that returned without calling next(), 0 if none
    returned,    \* the response that middleware returned
    response,    \* the response the request is answered with
    \* ---- a WebSocket namespace (one @WebSocket service) ----
    wsMw,        \* length of the service's middlewares array
    conn,        \* per connection: st (lifecycle), pos (next middleware), ctx (the upgrade
                 \* request's WebSocket value, set by context.setWebSocketValue)
    sockets,     \* this.sockets: the connected sockets
    rooms,       \* this.rooms: room -> its member sockets
    data,        \* ws.data.values of each socket
    inbox,       \* the messages each client has received
    nmsg,        \* number of messages broadcast so far
    mwCalled,    \* per connection: the middlewares that called next() in its upgrade request
    passed,      \* per connection: the value a middleware passed to setWebSocketValue
    lifecycle,   \* per connection: the lifecycle methods called for it
    seen,        \* per connection: the values onOpen/onMessage read from ws.data.values
    subscribed,  \* room -> sockets that called ws.subscribe(room) and not ws.unsubscribe(room) since
    lastCast,    \* the last broadcast: its operation, room, sender, message and the
                 \* connected subscribers of the room when it was called
    \* ---- the IoC container ----
    inst,        \* per component: how far the creation of its instance has come
    fields,      \* per component: the @Inject fields of its instance that are set
    ctorSaw,     \* per component: the @Inject fields that were set while its constructor ran
    pcSaw,       \* per component: the @Inject fields that were set while @PostConstruct ran
    events,      \* per component: the steps of its creation, in order
    started,     \* whether the application has started (the server accepts requests)
    served,      \* number of requests served so far
    \* ---- service scopes ----
    created,     \* the service instances the container has created, in order of creation:
                 \* created[i] is the class of instance i
    field,       \* per injection point: the instance its @Inject field holds, 0 before injection
    state,       \* per instance: the values written to its state (logs.push, this.currentUser =)
    wrote,       \* per injection point: the values written through its field
    \* ---- @Strategy injection ----
    registry,    \* the registered components, in order of registration
    strategyField,  \* the last @Strategy field the container has set: its name, its
                 \* expression and the array injected
    \* ---- the injection graph of services and WebSocket services ----
    design,      \* "direct": UserService injects NotificationWebSocket;
                 \* "ulak": UserService injects ulak('/notifications')
    resolving,   \* the components whose @Inject fields the container is resolving, outermost first
    resolved,    \* the components whose @Inject fields are all resolved
    circular,    \* the circular dependency the container ran into, << >> if none
    \* ---- Ulak, the WebSocket message broker ----
    registered,  \* the namespace paths registered with Ulak
    attached,    \* per socket id: the namespace it is connected to and the rooms it subscribed to
    ulakOut,     \* the last call of a send method or of getSocketCount: the method, the API
                 \* it was called on, its arguments, the error thrown and the sockets reached
    bulkOut,     \* the last bulkSend call: its operations, its BulkResult, the sockets reached
    \* ---- pattern-based global middleware ----
    patEntries,  \* the entries of the @Config class's middlewares array, in array order
    patPath,     \* the path of the request, << >> before the request
    patRan,      \* the indices of the entries whose middleware ran for the request, in order
    wildcardBare, \* whether '/api/*' matches the path '/api' (not documented)
    wildcardDeep, \* whether '/api/*' matches a path more than one segment below '/api' (not documented)
    \* ---- the @Config classes of the application ----
    defined,     \* the @Config classes the application defines
    active,      \* the @Config class the server uses, 0 before the server is configured
    cfgLog,      \* per request, in order: whose global middlewares ran and whose onError was called
    \* ---- RateLimiterMiddleware ----
    rlOptions,   \* the options the middleware was constructed with
    buckets,     \* per client key: the tokens in its bucket
    rlOut,       \* the last request the middleware handled and what it did with it
    \* ---- exceptions thrown while a request is handled ----
    excSite,     \* where the request being handled threw, "none" when no exception is pending
    excPending,  \* the HttpException that left the handler and is not answered yet
    excLog,      \* per handled request: where it threw, what it threw, the response sent
    \* ---- asena generate and .asena/config.json ----
    suffixes,    \* the suffixes field of .asena/config.json
    generated,   \* the last component generated: type, name, the config read, class name
    \* ---- UserService.createUser ----
    usWiring,    \* who built the service: the container or the unit test
    usData,      \* the argument of createUser
    usFind,      \* what userRepo.findByEmail resolves to
    usPc,        \* the statement of createUser to run next
    usUser,      \* the record userRepo.create resolved to
    usCalls,     \* the calls made so far on the injected fields
    usOutcome,   \* the promise of createUser: pending, resolved or rejected
    \* ---- ExceptionMapper ----
    mapLog,      \* per error given to onError: the error and the response returned
    \* ---- JobService.runLongJob ----
    jobPc,       \* the statement of runLongJob to run next
    jobUser,     \* the userId argument
    jobId,       \* the id drawn for the job
    jobOutcome,  \* how performLongOperation ended: "none", "succeeded" or "threw"
    jobSendFailed, \* TRUE once a send of the run was rejected
    jobTrace,    \* the sends that succeeded and the begin and end of the operation, in order
    \* ---- OrderService.createOrder ----
    ordItems,    \* the items argument, as the sequence of its product ids
    ordStock,    \* the products in stock
    ordPc,       \* the statement of createOrder to run next
    ordIndex,    \* the item the running for loop is at
    ordCalls,    \* the calls made so far on the injected services
    ordOutcome   \* "pending", "order" or what createOrder rejected with

httpVars == <<adapter, route, bodyValid, chain, pos, phase, trace, called,
              stopAt, returned, response>>

wsVars == <<wsMw, conn, sockets, rooms, data, inbox, nmsg, mwCalled, passed,
            lifecycle, seen, subscribed, lastCast>>

diVars == <<inst, fields, ctorSaw, pcSaw, events, started, served>>

scopeVars == <<created, field, state, wrote>>

strategyVars == <<registry, strategyField>>

graphVars == <<design, resolving, resolved, circular>>

ulakVars == <<registered, attached, ulakOut, bulkOut>>

patternVars == <<patEntries, patPath, patRan, wildcardBare, wildcardDeep>>

configVars == <<defined, active, cfgLog>>

rateVars == <<rlOptions, buckets, rlOut>>

excVars == <<excSite, excPending, excLog>>

suffixVars == <<suffixes, generated>>

usersvcVars == <<usWiring, usData, usFind, usPc, usUser, usCalls, usOutcome>>

mapperVars == <<mapLog>>

jobVars == <<jobPc, jobUser, jobId, jobOutcome, jobSendFailed, jobTrace>>

orderVars == <<ordItems, ordStock, ordPc, ordIndex, ordCalls, ordOutcome>>

vars ==
    <<httpVars, wsVars, diVars, scopeVars, strategyVars, graphVars, ulakVars,
      patternVars, configVars, rateVars, excVars, suffixVars, usersvcVars,
      mapperVars, jobVars, orderVars>>

\* what the HTTP, the WebSocket and the container actions leave alone
notHttpVars ==
    <<wsVars, diVars, scopeVars, strategyVars, graphVars, ulakVars, patternVars,
      configVars, rateVars, excVars, suffixVars, usersvcVars, mapperVars, jobVars,
      orderVars>>
notWsVars ==
    <<httpVars, diVars, scopeVars, strategyVars, graphVars, ulakVars, patternVars,
      configVars, rateVars, excVars, suffixVars, usersvcVars, mapperVars, jobVars,
      orderVars>>
notDiVars ==
    <<httpVars, wsVars, scopeVars, strategyVars, graphVars, ulakVars, patternVars,
      configVars, rateVars, excVars, suffixVars, usersvcVars, mapperVars, jobVars,
      orderVars>>
notScopeVars ==
    <<httpVars, wsVars, diVars, strategyVars, graphVars, ulakVars, patternVars,
      configVars, rateVars, excVars, suffixVars, usersvcVars, mapperVars, jobVars,
      orderVars>>
notStrategyVars ==
    <<httpVars, wsVars, diVars, scopeVars, graphVars, ulakVars, patternVars,
      configVars, rateVars, excVars, suffixVars, usersvcVars, mapperVars, jobVars,
      orderVars>>
notGraphVars ==
    <<httpVars, wsVars, diVars, scopeVars, strategyVars, ulakVars, patternVars,
      configVars, rateVars, excVars, suffixVars, usersvcVars, mapperVars, jobVars,
      orderVars>>
notUlakVars ==
    <<httpVars, wsVars, diVars, scopeVars, strategyVars, graphVars, patternVars,
      configVars, rateVars, excVars, suffixVars, usersvcVars, mapperVars, jobVars,
      orderVars>>
notPatternVars ==
    <<httpVars, wsVars, diVars, scopeVars, strategyVars, graphVars, ulakVars,
      configVars, rateVars, excVars, suffixVars, usersvcVars, mapperVars, jobVars,
      orderVars>>
notConfigVars ==
    <<httpVars, wsVars, diVars, scopeVars, strategyVars, graphVars, ulakVars,
      patternVars, rateVars, excVars, suffixVars, usersvcVars, mapperVars, jobVars,
      orderVars>>
notRateVars ==
    <<httpVars, wsVars, diVars, scopeVars, strategyVars, graphVars, ulakVars,
      patternVars, configVars, excVars, suffixVars, usersvcVars, mapperVars, jobVars,
      orderVars>>
notExcVars ==
    <<httpVars, wsVars, diVars, scopeVars, strategyVars, graphVars, ulakVars,
      patternVars, configVars, rateVars, suffixVars, usersvcVars, mapperVars,
      jobVars, orderVars>>
notSuffixVars ==
    <<httpVars, wsVars, diVars, scopeVars, strategyVars, graphVars, ulakVars,
      patternVars, configVars, rateVars, excVars, usersvcVars, mapperVars, jobVars,
      orderVars>>
notUsersvcVars ==
    <<httpVars, wsVars, diVars, scopeVars, strategyVars, graphVars, ulakVars,
      patternVars, configVars, rateVars, excVars, suffixVars, mapperVars, jobVars,
      orderVars>>
notMapperVars ==
    <<httpVars, wsVars, diVars, scopeVars, strategyVars, graphVars, ulakVars,
      patternVars, configVars, rateVars, excVars, suffixVars, usersvcVars, jobVars,
      orderVars>>
notJobVars ==
    <<httpVars, wsVars, diVars, scopeVars, strategyVars, graphVars, ulakVars,
      patternVars, configVars, rateVars, excVars, suffixVars, usersvcVars,
      mapperVars, orderVars>>
notOrderVars ==
    <<httpVars, wsVars, diVars, scopeVars, strategyVars, graphVars, ulakVars,
      patternVars, configVars, rateVars, excVars, suffixVars, usersvcVars,
      mapperVars, jobVars>>

(***************************************************************************)
(* HTTP: middleware levels and the chain of a request                      *)
(***************************************************************************)
Adapters == {"Ergenecore", "Hono"}

NoResponse == [status |-> 0, src |-> "none", at |-> 0]

MutLevelMiddlewares(level, n) ==
    [i \in 1..n |-> [kind |-> "middleware", level |-> level, n |-> n + 1 - i]]

\* n middlewares of one level, in the order of their middlewares array
LevelMiddlewares(level, n) ==
    [i \in 1..n |-> [kind |-> "middleware", level |-> level, n |-> i]]

\* the validator of a route, if it declares one
ValidatorStep(r) ==
    IF r.validator THEN << [kind |-> "validator", level |-> "Route", n |-> 0] >>
                   ELSE << >>

HandlerStep == << [kind |-> "handler", level |-> "Handler", n |-> 0] >>

MutExecutionOrder(r) ==
    LevelMiddlewares("Controller", r.controller)
        \o LevelMiddlewares("Global", r.global)
        \o LevelMiddlewares("Pattern", r.pattern)
        \o LevelMiddlewares("Route", r.route)
        \o ValidatorStep(r)
        \o HandlerStep

MutValidatorFirst(r) ==
    LevelMiddlewares("Global", r.global)
        \o LevelMiddlewares("Pattern", r.pattern)
        \o LevelMiddlewares("Controller", r.controller)
        \o ValidatorStep(r)
        \o LevelMiddlewares("Route", r.route)
        \o HandlerStep

\* Global -> Pattern-Based -> Controller -> Route -> (validator) -> Route Handler
MiddlewareExecutionOrder(r) ==
    LevelMiddlewares("Global", r.global)
        \o LevelMiddlewares("Pattern", r.pattern)
        \o LevelMiddlewares("Controller", r.controller)
        \o LevelMiddlewares("Route", r.route)
        \o ValidatorStep(r)
        \o HandlerStep

Routes ==
    [global : 0..MaxPerLevel, pattern : 0..MaxPerLevel,
     controller : 0..MaxPerLevel, route : 0..MaxPerLevel, validator : BOOLEAN]

\* statuses the documented middlewares answer with (401 AuthMiddleware, 503 MaintenanceMiddleware)
SendStatuses == {401, 503}

\* no request has arrived yet
HttpIdle ==
    /\ route = [global |-> 0, pattern |-> 0, controller |-> 0, route |-> 0,
                validator |-> FALSE]
    /\ bodyValid = TRUE
    /\ chain = << >>
    /\ pos = 0
    /\ phase = "idle"
    /\ trace = << >>
    /\ called = {}
    /\ stopAt = 0
    /\ returned = NoResponse
    /\ response = NoResponse

HttpInit ==
    /\ adapter \in Adapters
    /\ HttpIdle

\* a request arrives for a route; the adapter runs the route's chain from its first step
Receive ==
    /\ phase = "idle"
    /\ \E r \in Routes, v \in BOOLEAN :
         /\ route' = r
         /\ bodyValid' = v
         /\ chain' = MiddlewareExecutionOrder(r)
    /\ pos' = 1
    /\ phase' = "down"
    /\ trace' = << >>
    /\ called' = {}
    /\ stopAt' = 0
    /\ returned' = NoResponse
    /\ response' = NoResponse
    /\ UNCHANGED adapter
    /\ UNCHANGED notHttpVars

Enter(i) == [ev |-> "enter", at |-> i]
After(i) == [ev |-> "after", at |-> i]

\* handle() of a middleware that reaches "await next()": control passes to the next step
MiddlewareNext ==
    /\ phase = "down"
    /\ chain[pos].kind = "middleware"
    /\ trace' = Append(trace, Enter(pos))
    /\ called' = called \cup {pos}
    /\ pos' = pos + 1
    /\ UNCHANGED <<adapter, route, bodyValid, chain, phase, stopAt, returned, response>>
    /\ UNCHANGED notHttpVars

\* what the request is answered with when a middleware returns context.send(...):
\* Ergenecore takes it as the response; with Hono context.send() does not work in middleware
SendResult(a, r) == IF a = "Ergenecore" THEN r ELSE NoResponse

MutAfterStop(p) == [phase |-> "down", pos |-> p + 1]

\* where the request continues once a step ended without calling next(): nothing
\* further down the chain runs, control returns to the steps that awaited next()
AfterStop(p) == [phase |-> "up", pos |-> p - 1]

\* handle() of a middleware that returns context.send(body, status) without calling next()
MiddlewareSend ==
    /\ phase = "down"
    /\ chain[pos].kind = "middleware"
    /\ \E s \in SendStatuses :
         LET r == [status |-> s, src |-> "middleware", at |-> pos] IN
           /\ returned' = r
           /\ response' = SendResult(adapter, r)
    /\ trace' = Append(trace, Enter(pos))
    /\ stopAt' = pos
    /\ phase' = AfterStop(pos).phase
    /\ pos' = AfterStop(pos).pos
    /\ UNCHANGED <<adapter, route, bodyValid, chain, called>>
    /\ UNCHANGED notHttpVars

\* handle() of a middleware that throws HttpException / HTTPException instead of calling next()
MiddlewareThrow ==
    /\ phase = "down"
    /\ chain[pos].kind = "middleware"
    /\ \E s \in SendStatuses :
         response' = [status |-> s, src |-> "exception", at |-> pos]
    /\ trace' = Append(trace, Enter(pos))
    /\ phase' = AfterStop(pos).phase
    /\ pos' = AfterStop(pos).pos
    /\ UNCHANGED <<adapter, route, bodyValid, chain, called, stopAt, returned>>
    /\ UNCHANGED notHttpVars

MutValidationFailed(p) == [status |-> 422, src |-> "validator", at |-> p]

\* the automatic answer to a body that fails the schema: 400 Bad Request with the details
ValidationFailed(p) == [status |-> 400, src |-> "validator", at |-> p]

\* the route's validator: a valid body goes on to the handler, an invalid one is answered 400
Validate ==
    /\ phase = "down"
    /\ chain[pos].kind = "validator"
    /\ trace' = Append(trace, Enter(pos))
    /\ IF bodyValid
         THEN /\ pos' = pos + 1
              /\ UNCHANGED <<phase, response>>
         ELSE /\ response' = ValidationFailed(pos)
              /\ phase' = AfterStop(pos).phase
              /\ pos' = AfterStop(pos).pos
    /\ UNCHANGED <<adapter, route, bodyValid, chain, called, stopAt, returned>>
    /\ UNCHANGED notHttpVars

\* the route handler: return context.send(...)
Handle ==
    /\ phase = "down"
    /\ chain[pos].kind = "handler"
    /\ trace' = Append(trace, Enter(pos))
    /\ response' = [status |-> 200, src |-> "handler", at |-> pos]
    /\ phase' = "up"
    /\ pos' = pos - 1
    /\ UNCHANGED <<adapter, route, bodyValid, chain, called, stopAt, returned>>
    /\ UNCHANGED notHttpVars

\* a middleware that awaited next() resumes after it (LoggerMiddleware logs "Completed")
Resume ==
    /\ phase = "up"
    /\ pos >= 1
    /\ trace' = Append(trace, After(pos))
    /\ pos' = pos - 1
    /\ UNCHANGED <<adapter, route, bodyValid, chain, phase, called, stopAt, returned, response>>
    /\ UNCHANGED notHttpVars

\* the outermost step has returned: the request is answered
Respond ==
    /\ phase = "up"
    /\ pos = 0
    /\ phase' = "done"
    /\ UNCHANGED <<adapter, route, bodyValid, chain, pos, trace, called, stopAt, returned, response>>
    /\ UNCHANGED notHttpVars

HttpNext ==
    \/ Receive
    \/ MiddlewareNext
    \/ MiddlewareSend
    \/ MiddlewareThrow
    \/ Validate
    \/ Handle
    \/ Resume
    \/ Respond


(***************************************************************************)
(* Claims about the HTTP middleware chain                                  *)
(***************************************************************************)
LevelRank(l) ==
    CASE l = "Global" -> 1
      [] l = "Pattern" -> 2
      [] l = "Controller" -> 3
      [] l = "Route" -> 4
      [] l = "Handler" -> 5

Entered == {i \in 1..Len(trace) : trace[i].ev = "enter"}

HandlerEntered == \E i \in Entered : chain[trace[i].at].kind = "handler"

ValidatorEntered == \E i \in Entered : chain[trace[i].at].kind = "validator"

\* C1: the steps of a request are entered in the order global, pattern-based,
\* controller-level, route-level middleware, and the route handler is entered
\* last, only once every middleware of the route has been entered and has
\* called next().
C1_ExecutionOrder ==
    /\ \A i, j \in Entered :
         i < j => LevelRank(chain[trace[i].at].level) <= LevelRank(chain[trace[j].at].level)
    /\ \A j \in Entered :
         chain[trace[j].at].kind = "handler" =>
           /\ \A k \in 1..Len(chain) :
                chain[k].kind = "middleware" =>
                  /\ k \in called
                  /\ \E i \in Entered : i < j /\ trace[i].at = k
           /\ \A i \in Entered : i <= j

\* a request through middleware at all four levels has reached its handler and is answered
C1_Witness ==
    /\ phase = "done"
    /\ route.global >= 1 /\ route.pattern >= 1 /\ route.controller >= 1 /\ route.route >= 1
    /\ HandlerEntered
    /\ response.src = "handler"

EnteredSteps == [i \in 1..Len(SelectSeq(trace, LAMBDA e : e.ev = "enter")) |->
                   chain[SelectSeq(trace, LAMBDA e : e.ev = "enter")[i].at]]

\* C20: on a route with middlewares and a validator, the validator is entered
\* only after every route middleware has been entered in array order and has
\* called next(), and the handler is entered only after the validator.
C20_MiddlewaresValidatorHandler ==
    (route.validator /\ route.route >= 1) =>
      \A j \in 1..Len(EnteredSteps) :
        /\ EnteredSteps[j].kind = "validator" =>
             /\ j > route.route
             /\ \A k \in 1..route.route :
                  /\ EnteredSteps[j - route.route - 1 + k] =
                       [kind |-> "middleware", level |-> "Route", n |-> k]
                  /\ \E p \in called : chain[p] = EnteredSteps[j - route.route - 1 + k]
        /\ EnteredSteps[j].kind = "handler" =>
             (j > 1 /\ EnteredSteps[j - 1].kind = "validator")

\* [AuthMiddleware, RateLimitMiddleware], CreateUserValidator, create() ran in this order
C20_Witness ==
    /\ phase = "done"
    /\ route = [global |-> 0, pattern |-> 0, controller |-> 0, route |-> 2,
                validator |-> TRUE]
    /\ EnteredSteps = << [kind |-> "middleware", level |-> "Route", n |-> 1],
                         [kind |-> "middleware", level |-> "Route", n |-> 2],
                         [kind |-> "validator", level |-> "Route", n |-> 0],
                         [kind |-> "handler", level |-> "Handler", n |-> 0] >>

(***************************************************************************)
(* WebSocket: upgrade request, lifecycle, rooms and broadcasting           *)
(***************************************************************************)
Conns == 1..MaxConn

Rooms == {"general", "announcements"}

\* values a middleware passes to context.setWebSocketValue (the authenticated user)
Values == {"john_doe", "jane_doe"}

Unset == "unset"

NoCast == [op |-> "none", room |-> "none", from |-> 0, msg |-> 0, members |-> {}]

\* a namespace nobody has connected to yet
WsFresh ==
    /\ conn = [c \in Conns |-> [st |-> "new", pos |-> 0, ctx |-> Unset]]
    /\ sockets = {}
    /\ rooms = [r \in Rooms |-> {}]
    /\ data = [c \in Conns |-> Unset]
    /\ inbox = [c \in Conns |-> {}]
    /\ nmsg = 0
    /\ mwCalled = [c \in Conns |-> {}]
    /\ passed = [c \in Conns |-> Unset]
    /\ lifecycle = [c \in Conns |-> {}]
    /\ seen = [c \in Conns |-> {}]
    /\ subscribed = [r \in Rooms |-> {}]
    /\ lastCast = NoCast

\* a client asks for ws://host/path: the upgrade request starts with the first middleware
Upgrade(c) ==
    /\ conn[c].st = "new"
    /\ conn' = [conn EXCEPT ![c] = [st |-> "upgrading", pos |-> 1, ctx |-> Unset]]
    /\ UNCHANGED <<wsMw, sockets, rooms, data, inbox, nmsg, mwCalled, passed,
                   lifecycle, seen, subscribed, lastCast>>
    /\ UNCHANGED notWsVars

\* handle() of a WebSocket middleware that reaches "await next()", after (for v # Unset,
\* as WsAuthMiddleware does) passing the user to context.setWebSocketValue(v)
WsMiddlewareNext(c, v) ==
    /\ conn[c].st = "upgrading"
    /\ conn[c].pos <= wsMw
    /\ v # Unset => conn[c].ctx = Unset
    /\ conn' = [conn EXCEPT ![c].pos = @ + 1,
                            ![c].ctx = IF v # Unset THEN v ELSE @]
    /\ passed' = [passed EXCEPT ![c] = IF v # Unset THEN v ELSE @]
    /\ mwCalled' = [mwCalled EXCEPT ![c] = @ \cup {conn[c].pos}]
    /\ UNCHANGED <<wsMw, sockets, rooms, data, inbox, nmsg, lifecycle, seen,
                   subscribed, lastCast>>
    /\ UNCHANGED notWsVars

\* handle() of a WebSocket middleware that returns a response (context.send(..., 401))
\* or returns without calling next(): the connection is rejected
WsMiddlewareReject(c) ==
    /\ conn[c].st = "upgrading"
    /\ conn[c].pos <= wsMw
    /\ conn' = [conn EXCEPT ![c].st = "rejected"]
    /\ UNCHANGED <<wsMw, sockets, rooms, data, inbox, nmsg, mwCalled, passed,
                   lifecycle, seen, subscribed, lastCast>>
    /\ UNCHANGED notWsVars

MutEstablished(c) == conn[c].st \in {"upgrading", "rejected"}

\* the connection is established once every middleware of the array has called next()
Established(c) == conn[c].st = "upgrading" /\ conn[c].pos > wsMw

MutSocketData(c) == conn[1].ctx

\* ws.data.values of the new socket: the WebSocket value of its own upgrade request
SocketData(c) == conn[c].ctx

\* the connection is established, the socket is tracked in this.sockets and onOpen(ws)
\* is called, which reads ws.data.values
Open(c) ==
    /\ Established(c)
    /\ conn' = [conn EXCEPT ![c].st = "open"]
    /\ sockets' = sockets \cup {c}
    /\ data' = [data EXCEPT ![c] = SocketData(c)]
    /\ lifecycle' = [lifecycle EXCEPT ![c] = @ \cup {"onOpen"}]
    /\ seen' = [seen EXCEPT ![c] = @ \cup {SocketData(c)}]
    /\ UNCHANGED <<wsMw, rooms, inbox, nmsg, mwCalled, passed, subscribed, lastCast>>
    /\ UNCHANGED notWsVars

\* the client sends a message: onMessage(ws, message) is called and reads ws.data.values
Message(c) ==
    /\ conn[c].st = "open"
    /\ lifecycle' = [lifecycle EXCEPT ![c] = @ \cup {"onMessage"}]
    /\ seen' = [seen EXCEPT ![c] = @ \cup {data[c]}]
    /\ UNCHANGED <<wsMw, conn, sockets, rooms, data, inbox, nmsg, mwCalled, passed,
                   subscribed, lastCast>>
    /\ UNCHANGED notWsVars

MutRoomsAfterSubscribe(c, r) == [x \in Rooms |-> rooms[x] \cup {c}]

\* ws.subscribe(room): the socket joins the room and Asena tracks it there
RoomsAfterSubscribe(c, r) == [rooms EXCEPT ![r] = @ \cup {c}]

Subscribe(c, r) ==
    /\ conn[c].st = "open"
    /\ rooms' = RoomsAfterSubscribe(c, r)
    /\ subscribed' = [subscribed EXCEPT ![r] = @ \cup {c}]
    /\ UNCHANGED <<wsMw, conn, sockets, data, inbox, nmsg, mwCalled, passed,
                   lifecycle, seen, lastCast>>
    /\ UNCHANGED notWsVars

\* ws.unsubscribe(room): the socket leaves the room
Unsubscribe(c, r) ==
    /\ conn[c].st = "open"
    /\ rooms' = [rooms EXCEPT ![r] = @ \ {c}]
    /\ subscribed' = [subscribed EXCEPT ![r] = @ \ {c}]
    /\ UNCHANGED <<wsMw, conn, sockets, data, inbox, nmsg, mwCalled, passed,
                   lifecycle, seen, lastCast>>
    /\ UNCHANGED notWsVars

\* this.getSocketsByRoom(room): the sockets of this.rooms for the room
GetSocketsByRoom(r) == rooms[r]

\* the connected subscribers of a room, by the calls the sockets made
ConnectedSubscribers(r) == subscribed[r] \cap sockets

Deliver(targets, m) == [c \in Conns |-> IF c \in targets THEN inbox[c] \cup {m} ELSE inbox[c]]

MutToTargets(r) == sockets

\* this.to(room, data): the sockets of the room
ToTargets(r) == GetSocketsByRoom(r)

\* this.to(room, data), called in the service or through an injected reference to it
To(r) ==
    /\ nmsg < MaxMsg
    /\ nmsg' = nmsg + 1
    /\ inbox' = Deliver(ToTargets(r), nmsg + 1)
    /\ lastCast' = [op |-> "to", room |-> r, from |-> 0, msg |-> nmsg + 1,
                    members |-> ConnectedSubscribers(r)]
    /\ UNCHANGED <<wsMw, conn, sockets, rooms, data, mwCalled, passed, lifecycle,
                   seen, subscribed>>
    /\ UNCHANGED notWsVars

\* this.in(data): every connected client
In ==
    /\ nmsg < MaxMsg
    /\ nmsg' = nmsg + 1
    /\ inbox' = Deliver(sockets, nmsg + 1)
    /\ lastCast' = [op |-> "in", room |-> "none", from |-> 0, msg |-> nmsg + 1,
                    members |-> sockets]
    /\ UNCHANGED <<wsMw, conn, sockets, rooms, data, mwCalled, passed, lifecycle,
                   seen, subscribed>>
    /\ UNCHANGED notWsVars

MutPublishTargets(c, r, self) == IF self THEN {c} ELSE {}

\* ws.publish(room, data): "broadcasts to all room subscribers", used to "notify others
\* in the room"; whether the publishing socket itself is among the receivers is left
\* open by the documentation (self)
PublishTargets(c, r, self) ==
    IF self THEN GetSocketsByRoom(r) ELSE GetSocketsByRoom(r) \ {c}

Publish(c, r) ==
    /\ conn[c].st = "open"
    /\ nmsg < MaxMsg
    /\ nmsg' = nmsg + 1
    /\ \E self \in BOOLEAN : inbox' = Deliver(PublishTargets(c, r, self), nmsg + 1)
    /\ lastCast' = [op |-> "publish", room |-> r, from |-> c, msg |-> nmsg + 1,
                    members |-> ConnectedSubscribers(r)]
    /\ UNCHANGED <<wsMw, conn, sockets, rooms, data, mwCalled, passed, lifecycle,
                   seen, subscribed>>
    /\ UNCHANGED notWsVars

MutRoomsAfterClose(c, left) == [r \in Rooms |-> IF r \in left THEN rooms[r] \ {c} ELSE rooms[r]]

\* this.rooms after a socket closed: Asena cleans up the room references of the
\* socket, whatever rooms (left) onClose unsubscribed it from
RoomsAfterClose(c, left) == [r \in Rooms |-> rooms[r] \ {c}]

\* this.sockets after a socket closed: Asena removes the socket
SocketsAfterClose(c) == sockets \ {c}

\* the client disconnects: onClose(ws) is called, which may ws.unsubscribe from the
\* rooms in left; then Asena removes the socket from this.sockets and from the rooms
Close(c) ==
    /\ conn[c].st = "open"
    /\ \E left \in SUBSET Rooms :
         /\ subscribed' = [r \in Rooms |-> IF r \in left THEN subscribed[r] \ {c}
                                                        ELSE subscribed[r]]
         /\ rooms' = RoomsAfterClose(c, left)
    /\ sockets' = SocketsAfterClose(c)
    /\ conn' = [conn EXCEPT ![c].st = "closed"]
    /\ lifecycle' = [lifecycle EXCEPT ![c] = @ \cup {"onClose"}]
    /\ UNCHANGED <<wsMw, data, inbox, nmsg, mwCalled, passed, seen, lastCast>>
    /\ UNCHANGED notWsVars

\* a namespace with middlewares (PrivateSocket, AdminSocket): upgrade and lifecycle
WsUpgradeNext ==
    \/ \E c \in Conns : Upgrade(c)
    \/ \E c \in Conns, v \in Values \cup {Unset} : WsMiddlewareNext(c, v)
    \/ \E c \in Conns : WsMiddlewareReject(c)
    \/ \E c \in Conns : Open(c)
    \/ \E c \in Conns : Message(c)
    \/ \E c \in Conns : Close(c)

\* a namespace without middlewares (ChatSocket, NotificationSocket): rooms and broadcasts
WsRoomsNext ==
    \/ \E c \in Conns : Upgrade(c)
    \/ \E c \in Conns : Open(c)
    \/ \E c \in Conns, r \in Rooms : Subscribe(c, r)
    \/ \E c \in Conns, r \in Rooms : Unsubscribe(c, r)
    \/ \E c \in Conns, r \in Rooms : Publish(c, r)
    \/ \E r \in Rooms : To(r)
    \/ In
    \/ \E c \in Conns : Close(c)

(***************************************************************************)
(* Claims about WebSocket namespaces                                       *)
(***************************************************************************)
\* C4: onOpen is called for a connection only if every middleware of the
\* @WebSocket middlewares array called next() in its upgrade request; a
\* connection a middleware rejected has no lifecycle method called and is not
\* among the connected sockets.
C4_MiddlewareBeforeOpen ==
    \A c \in Conns :
      /\ lifecycle[c] # {} => mwCalled[c] = 1..wsMw
      /\ conn[c].st = "rejected" => (lifecycle[c] = {} /\ c \notin sockets)

\* behind two middlewares one connection was opened and another was rejected by the second
C4_Witness ==
    /\ wsMw >= 2
    /\ \E c1, c2 \in Conns :
         /\ "onOpen" \in lifecycle[c1]
         /\ mwCalled[c1] = 1..wsMw
         /\ conn[c2].st = "rejected"
         /\ mwCalled[c2] = {1}

\* C5: the members of a room, as this.rooms / getSocketsByRoom(room) report
\* them, are exactly the connected sockets that called ws.subscribe(room) and
\* have not called ws.unsubscribe(room) since.
C5_RoomMembers ==
    \A r \in Rooms : GetSocketsByRoom(r) = ConnectedSubscribers(r)

\* a room with a member, after another subscriber of it disconnected without unsubscribing
C5_Witness ==
    \E r \in Rooms, c1, c2 \in Conns :
      /\ conn[c1].st = "closed"
      /\ c1 \in subscribed[r]
      /\ GetSocketsByRoom(r) = {c2}

\* C6: after the close of a socket it is in no room and not in this.sockets,
\* whether or not onClose called ws.unsubscribe.
C6_CleanupOnClose ==
    \A c \in Conns :
      conn[c].st = "closed" => (c \notin sockets /\ \A r \in Rooms : c \notin rooms[r])

\* a socket closed while subscribed to a room that its onClose did not unsubscribe it from
C6_Witness ==
    \E c \in Conns, r1, r2 \in Rooms :
      /\ conn[c].st = "closed"
      /\ "onClose" \in lifecycle[c]
      /\ r1 # r2
      /\ c \in subscribed[r1]
      /\ c \notin subscribed[r2]

\* C7: this.to(room, data) delivers the message to every socket subscribed to
\* the room when it is called, and to no other socket.
C7_ToDelivers ==
    lastCast.op = "to" =>
      \A c \in Conns : (lastCast.msg \in inbox[c]) <=> (c \in lastCast.members)

\* this.to reached a subscriber of the room while another socket was connected outside it
C7_Witness ==
    /\ lastCast.op = "to"
    /\ \E c1, c2 \in Conns :
         /\ c1 \in lastCast.members
         /\ lastCast.msg \in inbox[c1]
         /\ conn[c2].st = "open"
         /\ c2 \notin lastCast.members

WsStarted(c) ==
    mwCalled[c] \cup (IF conn[c].st = "rejected" THEN {conn[c].pos} ELSE {})

Components ==
    {"LoggerService", "DatabaseService", "ExampleService", "UserService", "UserController"}

\* the components whose @PostConstruct method is async (UserService.initialize
\* awaits this.db.getAllUsers()); ExampleService.initialize is synchronous
AsyncPostConstruct == {"UserService"}

\* the @Inject fields of each component, named by the component they inject
Deps(c) ==
    CASE c = "ExampleService" -> {"LoggerService"}
      [] c = "UserService" -> {"DatabaseService"}
      [] c = "UserController" -> {"UserService"}
      [] OTHER -> {}

\* nothing has been created yet
DiFresh ==
    /\ inst = [c \in Components |-> "none"]
    /\ fields = [c \in Components |-> {}]
    /\ ctorSaw = [c \in Components |-> {}]
    /\ pcSaw = [c \in Components |-> {}]
    /\ events = [c \in Components |-> << >>]
    /\ started = FALSE
    /\ served = 0

\* 1. the class constructor runs: no @Inject field is set yet ("this.logger is undefined here!")
Construct(c) ==
    /\ inst[c] = "none"
    /\ inst' = [inst EXCEPT ![c] = "constructed"]
    /\ ctorSaw' = [ctorSaw EXCEPT ![c] = fields[c]]
    /\ events' = [events EXCEPT ![c] = Append(@, "constructor")]
    /\ UNCHANGED <<fields, pcSaw, started, served>>
    /\ UNCHANGED notDiVars

\* 2. all @Inject dependencies of the instance are resolved; each needs an instance to inject
InjectDependencies(c) ==
    /\ inst[c] = "constructed"
    /\ \A d \in Deps(c) : inst[d] # "none"
    /\ inst' = [inst EXCEPT ![c] = "injected"]
    /\ fields' = [fields EXCEPT ![c] = Deps(c)]
    /\ events' = [events EXCEPT ![c] = Append(@, "inject")]
    /\ UNCHANGED <<ctorSaw, pcSaw, started, served>>
    /\ UNCHANGED notDiVars

MutPostConstructDue(c) == inst[c] = "constructed"

\* @PostConstruct methods are called after all dependencies have been injected
PostConstructDue(c) == inst[c] = "injected"

\* 3. all @PostConstruct methods of the instance are called ("this.logger is available
\* here!"); an async method returns a promise that is pending until its awaits are done
PostConstruct(c) ==
    /\ PostConstructDue(c)
    /\ inst' = [inst EXCEPT ![c] = IF c \in AsyncPostConstruct THEN "initializing"
                                                               ELSE "ready"]
    /\ pcSaw' = [pcSaw EXCEPT ![c] = fields[c]]
    /\ events' = [events EXCEPT ![c] = Append(@, "postConstruct")]
    /\ UNCHANGED <<fields, ctorSaw, started, served>>
    /\ UNCHANGED notDiVars

\* the promise of an async @PostConstruct method completes
PostConstructCompleted(c) ==
    /\ inst[c] = "initializing"
    /\ inst' = [inst EXCEPT ![c] = "ready"]
    /\ UNCHANGED <<fields, ctorSaw, pcSaw, events, started, served>>
    /\ UNCHANGED notDiVars

\* the components whose @PostConstruct promise is still pending
PendingPostConstruct == {c \in Components : inst[c] = "initializing"}

MutStartDue == \A c \in Components : inst[c] \in {"initializing", "ready"}

\* "Asena waits for them to complete before the application starts"
StartDue == \A c \in Components : inst[c] = "ready"

\* the application starts
Start ==
    /\ ~started
    /\ StartDue
    /\ started' = TRUE
    /\ UNCHANGED <<inst, fields, ctorSaw, pcSaw, events, served>>
    /\ UNCHANGED notDiVars

\* the started application serves a request
Serve ==
    /\ started
    /\ served < MaxServed
    /\ served' = served + 1
    /\ UNCHANGED <<inst, fields, ctorSaw, pcSaw, events, started>>
    /\ UNCHANGED notDiVars

DiNext ==
    \/ \E c \in Components : Construct(c)
    \/ \E c \in Components : InjectDependencies(c)
    \/ \E c \in Components : PostConstruct(c)
    \/ \E c \in Components : PostConstructCompleted(c)
    \/ Start
    \/ Serve

(***************************************************************************)
(* Claims about the IoC container                                          *)
(***************************************************************************)
ExecutionOrder == <<"constructor", "inject", "postConstruct">>

\* C10: for every component instance the constructor runs first, then all
\* @Inject dependencies are resolved, then the @PostConstruct methods are
\* called: no @Inject field is set while the constructor runs and every
\* @Inject field is set while a @PostConstruct method runs.
C10_ExecutionOrder ==
    \A c \in Components :
      /\ events[c] = SubSeq(ExecutionOrder, 1, Len(events[c]))
      /\ Len(events[c]) >= 1 => ctorSaw[c] = {}
      /\ Len(events[c]) = 3 => pcSaw[c] = Deps(c)

\* ExampleService went through all three steps and its PostConstruct saw the injected logger
C10_Witness ==
    /\ inst["ExampleService"] = "ready"
    /\ events["ExampleService"] = ExecutionOrder
    /\ ctorSaw["ExampleService"] = {}
    /\ pcSaw["ExampleService"] = {"LoggerService"}

\* C11: the application does not start until the @PostConstruct methods of
\* every component have been called and every async one has completed, and
\* no request is served while a @PostConstruct promise is still pending.
C11_StartAfterPostConstruct ==
    /\ started => /\ PendingPostConstruct = {}
                  /\ \A c \in Components : events[c] = ExecutionOrder
    /\ served > 0 => started /\ PendingPostConstruct = {}

\* the application started and served a request after UserService's async
\* initialize() had been called and had completed
C11_Witness ==
    /\ started
    /\ served > 0
    /\ "UserService" \in AsyncPostConstruct
    /\ events["UserService"] = ExecutionOrder
    /\ inst["UserService"] = "ready"

(***************************************************************************)
(* IoC container: service scopes                                           *)
(***************************************************************************)
\* ConfigService is declared with @Service(), RequestLoggerService with
\* @Service({ scope: Scope.PROTOTYPE })
ScopedServices == {"ConfigService", "RequestLoggerService"}

ScopeOf(s) == IF s = "RequestLoggerService" THEN "PROTOTYPE" ELSE "SINGLETON"

\* the components that inject the services
Holders == {"UserController", "PostController"}

\* one @Inject field per holder and service
InjectionPoints == Holders \X ScopedServices

\* the values the holders write to the state of a service
Written == {"v1", "v2"}

\* no more instances than one per injection point and one per service
InstanceIds == 1..(Cardinality(InjectionPoints) + Cardinality(ScopedServices))

\* the instances of service s
InstancesOf(s) == {i \in 1..Len(created) : created[i] = s}

\* the container holds the one instance of each singleton; nothing is injected yet
ScopeFresh ==
    /\ created = <<"ConfigService">>
    /\ field = [p \in InjectionPoints |-> 0]
    /\ state = [i \in InstanceIds |-> {}]
    /\ wrote = [p \in InjectionPoints |-> {}]

MutSingletonInstance(s) == Len(created) + 1

\* Scope.SINGLETON: "a single instance is created and shared across the entire application"
SingletonInstance(s) == CHOOSE i \in InstancesOf(s) : TRUE

MutPrototypeInstance(s) ==
    IF InstancesOf(s) # {} THEN CHOOSE i \in InstancesOf(s) : TRUE ELSE Len(created) + 1

\* Scope.PROTOTYPE: "creates a new instance for every injection"
PrototypeInstance(s) == Len(created) + 1

\* the container resolves the @Inject field p = <<holder, service>>
ScopeInject(p) ==
    /\ field[p] = 0
    /\ LET id == IF ScopeOf(p[2]) = "SINGLETON" THEN SingletonInstance(p[2])
                                                ELSE PrototypeInstance(p[2])
       IN /\ field' = [field EXCEPT ![p] = id]
          /\ created' = IF id > Len(created) THEN Append(created, p[2]) ELSE created
    /\ UNCHANGED <<state, wrote>>
    /\ UNCHANGED notScopeVars

\* a holder writes v to the state of the service in its field
\* (this.logger.log(message), this.userService.setCurrentUser(user))
ScopeWrite(p, v) ==
    /\ field[p] # 0
    /\ state' = [state EXCEPT ![field[p]] = @ \cup {v}]
    /\ wrote' = [wrote EXCEPT ![p] = @ \cup {v}]
    /\ UNCHANGED <<created, field>>
    /\ UNCHANGED notScopeVars

\* what a holder reads from the state of the service in its field (getLogs())
ScopeRead(p) == state[field[p]]

ScopeNext ==
    \/ \E p \in InjectionPoints : ScopeInject(p)
    \/ \E p \in InjectionPoints, v \in Written : ScopeWrite(p, v)

\* the injection points of service s whose field is set
Injected(s) == {p \in InjectionPoints : p[2] = s /\ field[p] # 0}

\* C12: a service declared with @Service() or Scope.SINGLETON has exactly one
\* instance; every injection point of it holds that instance, and what is
\* written to its state through one injection point is read through all.
C12_Singleton ==
    \A s \in ScopedServices :
      ScopeOf(s) = "SINGLETON" =>
        /\ Cardinality(InstancesOf(s)) = 1
        /\ \A p, q \in Injected(s) :
             /\ field[p] = field[q]
             /\ field[p] \in InstancesOf(s)
             /\ wrote[q] \subseteq ScopeRead(p)

\* both controllers hold ConfigService; what UserController wrote is read by PostController
C12_Witness ==
    /\ Injected("ConfigService") = Holders \X {"ConfigService"}
    /\ wrote[<<"UserController", "ConfigService">>] = {"v1"}
    /\ wrote[<<"PostController", "ConfigService">>] = {}
    /\ ScopeRead(<<"PostController", "ConfigService">>) = {"v1"}

\* C13: a service declared with Scope.PROTOTYPE gets a new instance for every
\* injection: distinct injection points hold distinct instances, and the
\* state of an instance holds only what was written through its own
\* injection point.
C13_Prototype ==
    \A s \in ScopedServices :
      ScopeOf(s) = "PROTOTYPE" =>
        /\ Cardinality(InstancesOf(s)) = Cardinality(Injected(s))
        /\ \A p, q \in Injected(s) :
             /\ field[p] \in InstancesOf(s)
             /\ p # q => field[p] # field[q]
             /\ ScopeRead(p) = wrote[p]

\* both controllers hold a RequestLoggerService; what UserController logged is
\* not in PostController's logs
C13_Witness ==
    /\ Injected("RequestLoggerService") = Holders \X {"RequestLoggerService"}
    /\ wrote[<<"UserController", "RequestLoggerService">>] = {"v1"}
    /\ ScopeRead(<<"UserController", "RequestLoggerService">>) = {"v1"}
    /\ ScopeRead(<<"PostController", "RequestLoggerService">>) = {}

(***************************************************************************)
(* IoC container: @Strategy and @Implements                                *)
(***************************************************************************)
StrategyClasses ==
    {"EmailNotificationService", "SmsNotificationService", "PushNotificationService",
     "StripeProvider", "PayPalProvider", "PaymentService"}

\* the interface name a class is marked with by @Implements, "none" without the decorator
Implements(c) ==
    CASE c \in {"EmailNotificationService", "SmsNotificationService",
                "PushNotificationService"} -> "NotificationService"
      [] c \in {"StripeProvider", "PayPalProvider"} -> "PaymentProvider"
      [] OTHER -> "none"

StrategyNames == {"NotificationService", "PaymentProvider"}

\* @Strategy(name) and @Strategy(name, (provider) => provider.name)
Expressions == {"none", "name"}

\* the name property of an implementation; the notification services declare none
ProviderName(c) ==
    CASE c = "StripeProvider" -> "Stripe"
      [] c = "PayPalProvider" -> "PayPal"
      [] OTHER -> "undefined"

\* what one entry of the injected array holds for implementation c
ApplyExpression(e, c) == IF e = "none" THEN [instance |-> c] ELSE ProviderName(c)

\* the registries of at most MaxRegistered distinct components
Registries ==
    {r \in UNION {[1..n -> StrategyClasses] : n \in 0..MaxRegistered} :
        \A i, j \in 1..Len(r) : i # j => r[i] # r[j]}

NoStrategyField == [name |-> "none", expression |-> "none", value |-> << >>]

StrategyFresh ==
    /\ registry = << >>
    /\ strategyField = NoStrategyField

MutImplementations(name) == registry

\* the registered components marked @Implements(name)
Implementations(name) == SelectSeq(registry, LAMBDA c : Implements(c) = name)

\* the array a @Strategy(name, expression) field receives
StrategyValue(name, e) ==
    [i \in 1..Len(Implementations(name)) |-> ApplyExpression(e, Implementations(name)[i])]

\* the container sets a @Strategy field
StrategyInject(name, e) ==
    /\ strategyField' = [name |-> name, expression |-> e, value |-> StrategyValue(name, e)]
    /\ UNCHANGED registry
    /\ UNCHANGED notStrategyVars

StrategyNext == \E name \in StrategyNames, e \in Expressions : StrategyInject(name, e)

\* the registered components marked @Implements(name), as a set
Marked(name) == {c \in {registry[i] : i \in 1..Len(registry)} : Implements(c) = name}

\* C14: a @Strategy(name) field receives an array with one entry for every
\* registered component marked @Implements(name) and for no other component;
\* with an expression the entry of an implementation is expression(implementation).
C14_Strategy ==
    strategyField.name # "none" =>
      LET v == strategyField.value
          impls == Marked(strategyField.name)
      IN /\ Len(v) = Cardinality(impls)
         /\ \E f \in [1..Len(v) -> impls] :
              /\ \A i, j \in 1..Len(v) : i # j => f[i] # f[j]
              /\ \A i \in 1..Len(v) : v[i] = ApplyExpression(strategyField.expression, f[i])

\* PaymentService.providerNames is ['Stripe', 'PayPal']
C14_Witness ==
    /\ registry = <<"StripeProvider", "PayPalProvider", "PaymentService">>
    /\ strategyField = [name |-> "PaymentProvider", expression |-> "name",
                        value |-> <<"Stripe", "PayPal">>]

(***************************************************************************)
(* IoC container: the injection graph of services and WebSocket services   *)
(***************************************************************************)
\* "__ULAK__" is the core service ICoreServiceNames.__ULAK__ that ulak(path) injects
GraphComponents ==
    {"UserService", "NotificationWebSocket", "ChatService", "NotificationService",
     "MultiChannelService", "__ULAK__"}

Designs == {"direct", "ulak"}

MutInjects(d, c) ==
    CASE c = "NotificationWebSocket" -> {"UserService"}
      [] c = "UserService" -> IF d = "direct" THEN {"NotificationWebSocket"}
                                              ELSE {"__ULAK__"}
      [] c \in {"ChatService", "NotificationService", "MultiChannelService"} -> {"__ULAK__"}
      [] c = "__ULAK__" -> {"NotificationWebSocket"}
      [] OTHER -> {}

\* the components the @Inject fields of component c name, under design d
Injects(d, c) ==
    CASE c = "NotificationWebSocket" -> {"UserService"}
      [] c = "UserService" -> IF d = "direct" THEN {"NotificationWebSocket"}
                                              ELSE {"__ULAK__"}
      [] c \in {"ChatService", "NotificationService", "MultiChannelService"} -> {"__ULAK__"}
      [] OTHER -> {}

GraphFresh(d) ==
    /\ design = d
    /\ resolving = << >>
    /\ resolved = {}
    /\ circular = << >>

\* the container starts to resolve the @Inject fields of a component
ResolveBegin(c) ==
    /\ resolving = << >>
    /\ circular = << >>
    /\ c \notin resolved
    /\ resolving' = <<c>>
    /\ UNCHANGED <<design, resolved, circular>>
    /\ UNCHANGED notGraphVars

\* the position of component d among the components being resolved, 0 if it is not
ResolvingAt(d) ==
    IF \E i \in 1..Len(resolving) : resolving[i] = d
    THEN CHOOSE i \in 1..Len(resolving) : resolving[i] = d
    ELSE 0

\* the container follows an @Inject field of the innermost component: a component
\* that is itself being resolved closes a circular dependency
ResolveInject(d) ==
    /\ resolving # << >>
    /\ d \in Injects(design, resolving[Len(resolving)]) \ resolved
    /\ IF ResolvingAt(d) # 0
       THEN /\ circular' = Append(SubSeq(resolving, ResolvingAt(d), Len(resolving)), d)
            /\ resolving' = << >>
       ELSE /\ resolving' = Append(resolving, d)
            /\ UNCHANGED circular
    /\ UNCHANGED <<design, resolved>>
    /\ UNCHANGED notGraphVars

\* every @Inject field of the innermost component is resolved
ResolveEnd ==
    /\ resolving # << >>
    /\ Injects(design, resolving[Len(resolving)]) \subseteq resolved
    /\ resolved' = resolved \cup {resolving[Len(resolving)]}
    /\ resolving' = SubSeq(resolving, 1, Len(resolving) - 1)
    /\ UNCHANGED <<design, circular>>
    /\ UNCHANGED notGraphVars

GraphNext ==
    \/ \E c \in GraphComponents : ResolveBegin(c)
    \/ \E d \in GraphComponents : ResolveInject(d)
    \/ ResolveEnd

\* the components reached from the set S along at most n injections
RECURSIVE InjectedFrom(_, _, _)
InjectedFrom(d, S, n) ==
    IF n = 0 THEN S
    ELSE InjectedFrom(d, S \cup UNION {Injects(d, c) : c \in S}, n - 1)

\* component c injects itself, directly or through other components
OnCycle(d, c) == c \in InjectedFrom(d, Injects(d, c), Cardinality(GraphComponents))

\* C15: with Ulak (UserService injects ulak('/notifications'),
\* NotificationWebSocket injects UserService) the injection graph has no
\* cycle; with direct injection of NotificationWebSocket into UserService it
\* has the cycle UserService -> NotificationWebSocket -> UserService.
C15_InjectionGraph ==
    /\ design = "ulak" =>
         /\ "__ULAK__" \in Injects(design, "UserService")
         /\ "UserService" \in Injects(design, "NotificationWebSocket")
         /\ \A c \in GraphComponents : ~OnCycle(design, c)
         /\ circular = << >>
    /\ design = "direct" =>
         /\ "NotificationWebSocket" \in Injects(design, "UserService")
         /\ "UserService" \in Injects(design, "NotificationWebSocket")
         /\ OnCycle(design, "UserService")
         /\ circular \in {<< >>,
                          <<"UserService", "NotificationWebSocket", "UserService">>,
                          <<"NotificationWebSocket", "UserService", "NotificationWebSocket">>}
         /\ {"UserService", "NotificationWebSocket"} \cap resolved = {}

\* with direct injection, resolving UserService ran into the cycle
C15_Witness ==
    /\ design = "direct"
    /\ circular = <<"UserService", "NotificationWebSocket", "UserService">>

(***************************************************************************)
(* Ulak: the WebSocket message broker                                      *)
(***************************************************************************)
UlakPaths == {"/chat", "/notifications"}

SocketIds == {"socket-1", "socket-2"}

UlakRooms == {"room-1", "room-2"}

NoOp == [type |-> "none", namespace |-> "none", room |-> "none", socketId |-> "none",
         rooms |-> {}]

\* the operations of the send methods
BroadcastOp(ns) == [NoOp EXCEPT !.type = "broadcast", !.namespace = ns]

RoomOp(ns, room) == [NoOp EXCEPT !.type = "room", !.namespace = ns, !.room = room]

SocketOp(ns, id) == [NoOp EXCEPT !.type = "socket", !.namespace = ns, !.socketId = id]

ManyOp(ns, rs) == [NoOp EXCEPT !.type = "many", !.namespace = ns, !.rooms = rs]

\* the argument of getSocketCount
CountOp(ns) == [NoOp EXCEPT !.type = "count", !.namespace = ns]

NoError == [code |-> "none", namespace |-> "none"]

\* class UlakError { code: UlakErrorCode; namespace?: string }
UlakError(code, ns) == [code |-> code, namespace |-> ns]

NoOut == [call |-> "none", via |-> "none", path |-> "none", op |-> NoOp,
          error |-> NoError, delivered |-> {}, count |-> 0]

NoBulk == [called |-> FALSE, operations |-> << >>, total |-> 0, succeeded |-> 0,
           failed |-> 0, results |-> << >>, delivered |-> << >>]

\* no call has been made yet
UlakIdle == ulakOut = NoOut /\ bulkOut = NoBulk

\* an application whose WebSocket services registered some of the namespaces, with
\* sockets connected to registered namespaces and subscribed to rooms
UlakInit ==
    /\ registered \in SUBSET UlakPaths
    /\ attached \in [SocketIds -> [ns : registered \cup {"none"}, rooms : SUBSET UlakRooms]]
    /\ \A id \in SocketIds : attached[id].ns = "none" => attached[id].rooms = {}
    /\ UlakIdle

\* an application without WebSocket services
UlakFresh ==
    /\ registered = {}
    /\ attached = [id \in SocketIds |-> [ns |-> "none", rooms |-> {}]]
    /\ UlakIdle

\* hasNamespace(namespace)
HasNamespace(ns) == ns \in registered

\* the sockets connected to namespace ns
SocketsIn(ns) == {id \in SocketIds : attached[id].ns = ns}

\* getSocketCount(namespace)
GetSocketCount(ns) == Cardinality(SocketsIn(ns))

\* the sockets an operation addresses
Targets(op) ==
    CASE op.type = "broadcast" -> SocketsIn(op.namespace)
      [] op.type = "room" -> {id \in SocketsIn(op.namespace) : op.room \in attached[id].rooms}
      [] op.type = "socket" -> SocketsIn(op.namespace) \cap {op.socketId}
      [] op.type = "many" ->
           {id \in SocketsIn(op.namespace) : attached[id].rooms \cap op.rooms # {}}
      [] OTHER -> {}

MutSendError(op) ==
    IF ~HasNamespace(op.namespace) THEN UlakError("SEND_FAILED", op.namespace)
    ELSE IF op.type = "socket" /\ op.socketId \notin SocketsIn(op.namespace)
         THEN UlakError("SOCKET_NOT_FOUND", op.namespace)
         ELSE NoError

\* the UlakError a send operation throws: NAMESPACE_NOT_FOUND "Namespace doesn't
\* exist", SOCKET_NOT_FOUND "Socket ID not found"
SendError(op) ==
    IF ~HasNamespace(op.namespace) THEN UlakError("NAMESPACE_NOT_FOUND", op.namespace)
    ELSE IF op.type = "socket" /\ op.socketId \notin SocketsIn(op.namespace)
         THEN UlakError("SOCKET_NOT_FOUND", op.namespace)
         ELSE NoError

\* the sockets a send operation delivers to: none when it throws
Delivered(op) == IF SendError(op) = NoError THEN Targets(op) ELSE {}

\* the outcome of a method of the core API called with the namespace of op
CoreCall(call, op) ==
    IF op.type = "count"
    THEN [call |-> call, via |-> "core", path |-> op.namespace, op |-> op,
          error |-> NoError, delivered |-> {}, count |-> GetSocketCount(op.namespace)]
    ELSE [call |-> call, via |-> "core", path |-> op.namespace, op |-> op,
          error |-> SendError(op), delivered |-> Delivered(op), count |-> 0]

\* ulak.broadcast(namespace, data)
UlakBroadcast(ns) ==
    /\ UlakIdle
    /\ ulakOut' = CoreCall("broadcast", BroadcastOp(ns))
    /\ UNCHANGED <<registered, attached, bulkOut>>
    /\ UNCHANGED notUlakVars

\* ulak.to(namespace, room, data)
UlakTo(ns, room) ==
    /\ UlakIdle
    /\ ulakOut' = CoreCall("to", RoomOp(ns, room))
    /\ UNCHANGED <<registered, attached, bulkOut>>
    /\ UNCHANGED notUlakVars

\* ulak.toSocket(namespace, socketId, data)
UlakToSocket(ns, id) ==
    /\ UlakIdle
    /\ ulakOut' = CoreCall("toSocket", SocketOp(ns, id))
    /\ UNCHANGED <<registered, attached, bulkOut>>
    /\ UNCHANGED notUlakVars

\* ulak.toMany(namespace, rooms, data)
UlakToMany(ns, rs) ==
    /\ UlakIdle
    /\ ulakOut' = CoreCall("toMany", ManyOp(ns, rs))
    /\ UNCHANGED <<registered, attached, bulkOut>>
    /\ UNCHANGED notUlakVars

\* ulak.getSocketCount(namespace)
UlakGetSocketCount(ns) ==
    /\ UlakIdle
    /\ ulakOut' = CoreCall("getSocketCount", CountOp(ns))
    /\ UNCHANGED <<registered, attached, bulkOut>>
    /\ UNCHANGED notUlakVars

\* BulkOperation: type 'broadcast' | 'room' | 'socket'
BulkOps ==
    {BroadcastOp(ns) : ns \in UlakPaths}
        \cup {RoomOp(ns, room) : ns \in UlakPaths, room \in UlakRooms}
        \cup {SocketOp(ns, id) : ns \in UlakPaths, id \in SocketIds}

\* the arguments of bulkSend: at most MaxOps operations
BulkOperations == UNION {[1..n -> BulkOps] : n \in 0..MaxOps}

MutBulkResults(ops) ==
    LET stop == IF \E i \in 1..Len(ops) : SendError(ops[i]) # NoError
                THEN CHOOSE i \in 1..Len(ops) :
                       /\ SendError(ops[i]) # NoError
                       /\ \A j \in 1..(i - 1) : SendError(ops[j]) = NoError
                ELSE Len(ops)
    IN [i \in 1..stop |-> IF SendError(ops[i]) = NoError THEN "fulfilled" ELSE "rejected"]

\* results: PromiseSettledResult<void>[], one settled promise per operation
BulkResults(ops) ==
    [i \in 1..Len(ops) |-> IF SendError(ops[i]) = NoError THEN "fulfilled" ELSE "rejected"]

\* the number of results with the given status
Settled(results, status) ==
    Cardinality({i \in 1..Len(results) : results[i] = status})

\* ulak.bulkSend(operations)
UlakBulkSend(ops) ==
    /\ UlakIdle
    /\ bulkOut' = [called |-> TRUE,
                   operations |-> ops,
                   total |-> Len(BulkResults(ops)),
                   succeeded |-> Settled(BulkResults(ops), "fulfilled"),
                   failed |-> Settled(BulkResults(ops), "rejected"),
                   results |-> BulkResults(ops),
                   delivered |-> [i \in 1..Len(BulkResults(ops)) |->
                                    IF BulkResults(ops)[i] = "fulfilled"
                                    THEN Targets(ops[i]) ELSE {}]]
    /\ UNCHANGED <<registered, attached, ulakOut>>
    /\ UNCHANGED notUlakVars

MutNamespace(p) == [path |-> "/chat"]

\* ulak.namespace(path) and the ulak(path) helper: the scoped namespace interface
Namespace(p) == [path |-> p]

\* the outcome of a method of the scoped API of ulak.namespace(p): "no need to
\* specify namespace again"
ScopedCall(call, p, op) ==
    [CoreCall(call, [op EXCEPT !.namespace = Namespace(p).path])
        EXCEPT !.via = "scoped", !.path = p]

\* ns.broadcast(data)
NsBroadcast(p) ==
    /\ UlakIdle
    /\ ulakOut' = ScopedCall("broadcast", p, BroadcastOp("none"))
    /\ UNCHANGED <<registered, attached, bulkOut>>
    /\ UNCHANGED notUlakVars

\* ns.to(room, data)
NsTo(p, room) ==
    /\ UlakIdle
    /\ ulakOut' = ScopedCall("to", p, RoomOp("none", room))
    /\ UNCHANGED <<registered, attached, bulkOut>>
    /\ UNCHANGED notUlakVars

\* ns.toSocket(socketId, data)
NsToSocket(p, id) ==
    /\ UlakIdle
    /\ ulakOut' = ScopedCall("toSocket", p, SocketOp("none", id))
    /\ UNCHANGED <<registered, attached, bulkOut>>
    /\ UNCHANGED notUlakVars

\* ns.toMany(rooms, data)
NsToMany(p, rs) ==
    /\ UlakIdle
    /\ ulakOut' = ScopedCall("toMany", p, ManyOp("none", rs))
    /\ UNCHANGED <<registered, attached, bulkOut>>
    /\ UNCHANGED notUlakVars

\* ns.getSocketCount()
NsGetSocketCount(p) ==
    /\ UlakIdle
    /\ ulakOut' = ScopedCall("getSocketCount", p, CountOp("none"))
    /\ UNCHANGED <<registered, attached, bulkOut>>
    /\ UNCHANGED notUlakVars

\* one call of the broker on an application with registered namespaces and sockets
UlakNext ==
    \/ \E ns \in UlakPaths : UlakBroadcast(ns)
    \/ \E ns \in UlakPaths, room \in UlakRooms : UlakTo(ns, room)
    \/ \E ns \in UlakPaths, id \in SocketIds : UlakToSocket(ns, id)
    \/ \E ns \in UlakPaths, rs \in SUBSET UlakRooms : UlakToMany(ns, rs)
    \/ \E ns \in UlakPaths : UlakGetSocketCount(ns)
    \/ \E ops \in BulkOperations : UlakBulkSend(ops)
    \/ \E p \in UlakPaths : NsBroadcast(p)
    \/ \E p \in UlakPaths, room \in UlakRooms : NsTo(p, room)
    \/ \E p \in UlakPaths, id \in SocketIds : NsToSocket(p, id)
    \/ \E p \in UlakPaths, rs \in SUBSET UlakRooms : NsToMany(p, rs)
    \/ \E p \in UlakPaths : NsGetSocketCount(p)

(***************************************************************************)
(* Claims about Ulak                                                       *)
(***************************************************************************)
SendCalls == {"broadcast", "to", "toSocket", "toMany"}

C17_BulkSend ==
    bulkOut.called =>
      /\ bulkOut.total = Len(bulkOut.operations)
      /\ bulkOut.total = bulkOut.succeeded + bulkOut.failed
      /\ Len(bulkOut.results) = bulkOut.total
      /\ Len(bulkOut.delivered) = bulkOut.total
      /\ \A i \in 1..Len(bulkOut.results) :
           /\ bulkOut.results[i] \in {"fulfilled", "rejected"}
           /\ bulkOut.results[i] = "fulfilled" <=> SendError(bulkOut.operations[i]) = NoError
           /\ bulkOut.delivered[i] = Delivered(bulkOut.operations[i])

\* the first operation failed and the second one was still delivered
C17_Witness ==
    /\ bulkOut.called
    /\ bulkOut.results = <<"rejected", "fulfilled">>
    /\ bulkOut.failed = 1 /\ bulkOut.succeeded = 1 /\ bulkOut.total = 2
    /\ bulkOut.delivered[2] # {}

RequestPaths ==
    {<<"api", "users">>, <<"api", "users", "1">>, <<"api">>, <<"admin", "settings">>,
     <<"health">>, <<"metrics">>, <<"users">>}

\* the pattern lists of routes.include and routes.exclude: ['/api/*', '/admin/*'],
\* ['/health', '/metrics'] and their first patterns alone
PatternLists ==
    {{<<"api", "*">>, <<"admin", "*">>}, {<<"health">>, <<"metrics">>},
     {<<"api", "*">>}, {<<"health">>}}

\* a bare middleware, { middleware, routes: { include } }, { middleware, routes: { exclude } }
Entries ==
    {[kind |-> "all", patterns |-> {}]}
        \cup [kind : {"include", "exclude"}, patterns : PatternLists]

\* the middlewares arrays of at most MaxEntries entries
Middlewares == UNION {[1..n -> Entries] : n \in 0..MaxEntries}

NoPath == << >>

\* the @Config class is read, no request has arrived
PatternInit ==
    /\ patEntries \in Middlewares
    /\ wildcardBare \in BOOLEAN
    /\ wildcardDeep \in BOOLEAN
    /\ patPath = NoPath
    /\ patRan = << >>

\* an application whose @Config class declares no middlewares
PatternFresh ==
    /\ patEntries = << >>
    /\ wildcardBare = FALSE
    /\ wildcardDeep = FALSE
    /\ patPath = NoPath
    /\ patRan = << >>

\* a path matches a pattern that is equal to it, and a pattern that ends in * when
\* the segments before the * are the first segments of the path
MatchesPattern(pattern, path) ==
    IF pattern[Len(pattern)] = "*"
    THEN /\ Len(path) >= Len(pattern) - 1
         /\ SubSeq(path, 1, Len(pattern) - 1) = SubSeq(pattern, 1, Len(pattern) - 1)
         /\ Len(path) = Len(pattern) - 1 => wildcardBare
         /\ Len(path) > Len(pattern) => wildcardDeep
    ELSE path = pattern

MutApplies(entry, path) ==
    CASE entry.kind = "all" -> TRUE
      [] entry.kind = "include" -> \E p \in entry.patterns : MatchesPattern(p, path)
      [] entry.kind = "exclude" -> \E p \in entry.patterns : MatchesPattern(p, path)

\* "Apply to all routes", "Apply only to /api/* and /admin/*", "Apply to all
\* except /health and /metrics"
Applies(entry, path) ==
    CASE entry.kind = "all" -> TRUE
      [] entry.kind = "include" -> \E p \in entry.patterns : MatchesPattern(p, path)
      [] entry.kind = "exclude" -> ~ \E p \in entry.patterns : MatchesPattern(p, path)

\* the indices of the first n entries whose middleware applies to the path, in array order
RECURSIVE Applicable(_, _)
Applicable(n, path) ==
    IF n = 0 THEN << >>
    ELSE IF Applies(patEntries[n], path) THEN Append(Applicable(n - 1, path), n)
         ELSE Applicable(n - 1, path)

\* a request arrives and the global middlewares that apply to its path run
PatternRequest(path) ==
    /\ patPath = NoPath
    /\ patPath' = path
    /\ patRan' = Applicable(Len(patEntries), path)
    /\ UNCHANGED <<patEntries, wildcardBare, wildcardDeep>>
    /\ UNCHANGED notPatternVars

PatternNext == \E path \in RequestPaths : PatternRequest(path)

\* the middleware of entry i ran for the request
Ran(i) == \E k \in 1..Len(patRan) : patRan[k] = i

\* C21: for the request, the middleware of an entry with routes.include ran
\* iff the path matches one of the include patterns, the middleware of an
\* entry with routes.exclude ran iff the path matches none of the exclude
\* patterns, and the middleware of a bare entry ran.
C21_PatternBased ==
    patPath # NoPath =>
      \A i \in 1..Len(patEntries) :
        /\ patEntries[i].kind = "all" => Ran(i)
        /\ patEntries[i].kind = "include" =>
             (Ran(i) <=> \E p \in patEntries[i].patterns : MatchesPattern(p, patPath))
        /\ patEntries[i].kind = "exclude" =>
             (Ran(i) <=> \A p \in patEntries[i].patterns : ~MatchesPattern(p, patPath))

\* the documented AppConfig and a request to /health: LoggerMiddleware ran,
\* AuthMiddleware (include) and RateLimiterMiddleware (exclude) did not
C21_Witness ==
    /\ patEntries = << [kind |-> "all", patterns |-> {}],
                       [kind |-> "include", patterns |-> {<<"api", "*">>, <<"admin", "*">>}],
                       [kind |-> "exclude", patterns |-> {<<"health">>, <<"metrics">>}] >>
    /\ patPath = <<"health">>
    /\ patRan = <<1>>

(***************************************************************************)
(* The @Config class of the application                                    *)
(***************************************************************************)
ConfigClasses == 1..MaxConfigs

\* the application defines one or more @Config classes; none is in use yet
ConfigInit ==
    /\ defined \in (SUBSET ConfigClasses) \ {{}}
    /\ active = 0
    /\ cfgLog = << >>

\* an application with one @Config class
ConfigFresh ==
    /\ defined = {1}
    /\ active = 0
    /\ cfgLog = << >>

\* "If you define multiple @Config classes, only one will be used": which one is
\* not documented
ConfigLoad(c) ==
    /\ active = 0
    /\ c \in defined
    /\ active' = c
    /\ UNCHANGED <<defined, cfgLog>>
    /\ UNCHANGED notConfigVars

MutInEffect == defined

\* the @Config classes whose middlewares and onError the server applies
InEffect == {active}

\* a request is handled: the global middlewares run and, when the request throws,
\* onError(error, context) answers it
ConfigRequest(threw) ==
    /\ active # 0
    /\ Len(cfgLog) < MaxCfgRequests
    /\ cfgLog' = Append(cfgLog, [middlewares |-> InEffect,
                                 onError |-> IF threw THEN InEffect ELSE {}])
    /\ UNCHANGED <<defined, active>>
    /\ UNCHANGED notConfigVars

ConfigNext ==
    \/ \E c \in ConfigClasses : ConfigLoad(c)
    \/ \E threw \in BOOLEAN : ConfigRequest(threw)

\* the @Config classes whose middlewares or onError were applied to some request
AppliedConfigs ==
    UNION {cfgLog[i].middlewares \cup cfgLog[i].onError : i \in 1..Len(cfgLog)}

\* C22: only one @Config class is in effect: over all requests the global
\* middlewares and the onError handler of exactly one defined class are
\* used, and those of every other class are applied to no request.
C22_SingleConfig ==
    cfgLog # << >> =>
      /\ Cardinality(AppliedConfigs) = 1
      /\ AppliedConfigs \subseteq defined
      /\ \A i \in 1..Len(cfgLog) :
           /\ cfgLog[i].middlewares = AppliedConfigs
           /\ cfgLog[i].onError \subseteq AppliedConfigs

\* two @Config classes are defined; a request that threw and one that did not
\* were both handled with the same class
C22_Witness ==
    /\ Cardinality(defined) >= 2
    /\ Len(cfgLog) >= 2
    /\ \E i, j \in 1..Len(cfgLog) : cfgLog[i].onError # {} /\ cfgLog[j].onError = {}
    /\ Cardinality(AppliedConfigs) = 1

(***************************************************************************)
(* RateLimiterMiddleware: a token bucket per client key                    *)
(***************************************************************************)
\* keyGenerator: (ctx) => ctx.state.user?.id || 'anonymous'
ClientKeys == {"anonymous", "user-1"}

\* cost: (ctx) => ctx.req.url.includes('/search') ? 5 : 1
Costs == {1, 5}

\* the statusCode option: not given (0), 429 or another status
StatusCodeOptions == {0, 429, 503}

DefaultStatusCode == 429

\* the status of the response to a request over the limit
StatusCode == IF rlOptions.statusCode = 0 THEN DefaultStatusCode
                                                ELSE rlOptions.statusCode

RateLimitHeaders == {"X-RateLimit-Limit", "X-RateLimit-Remaining", "X-RateLimit-Reset"}

NoRateOut == [handled |-> FALSE, key |-> "none", cost |-> 0, skipped |-> FALSE,
              before |-> 0, after |-> 0, next |-> FALSE, status |-> 0, headers |-> {}]

\* the middleware is constructed: every client can burst up to the capacity
RateInit ==
    /\ rlOptions \in [capacity : {Capacity}, statusCode : StatusCodeOptions]
    /\ buckets = [k \in ClientKeys |-> Capacity]
    /\ rlOut = NoRateOut

RateFresh ==
    /\ rlOptions = [capacity |-> Capacity, statusCode |-> 0]
    /\ buckets = [k \in ClientKeys |-> Capacity]
    /\ rlOut = NoRateOut

MutAdmits(tokens, cost) == tokens > 0

\* the bucket pays for the request
Admits(tokens, cost) == tokens >= cost

\* the middleware handles a request of client key k with the given cost; skip is
\* the value of the skip option for the request
RateRequest(k, cost, skip) ==
    /\ rlOut' =
         IF skip
         THEN [NoRateOut EXCEPT !.handled = TRUE, !.key = k, !.cost = cost,
                                !.skipped = TRUE, !.before = buckets[k],
                                !.after = buckets[k], !.next = TRUE]
         ELSE IF Admits(buckets[k], cost)
         THEN [NoRateOut EXCEPT !.handled = TRUE, !.key = k, !.cost = cost,
                                !.before = buckets[k], !.after = buckets[k] - cost,
                                !.next = TRUE, !.headers = RateLimitHeaders]
         ELSE [NoRateOut EXCEPT !.handled = TRUE, !.key = k, !.cost = cost,
                                !.before = buckets[k], !.after = buckets[k],
                                !.status = StatusCode,
                                !.headers = RateLimitHeaders \cup {"Retry-After"}]
    /\ buckets' = [buckets EXCEPT ![k] = rlOut'.after]
    /\ UNCHANGED rlOptions
    /\ UNCHANGED notRateVars

\* time passes and one token of the refill rate is due to the bucket of k; the
\* middleware credits it lazily, when the next request of k arrives
RateRefill(k) ==
    /\ buckets[k] < rlOptions.capacity
    /\ buckets' = [buckets EXCEPT ![k] = @ + 1]
    /\ UNCHANGED <<rlOptions, rlOut>>
    /\ UNCHANGED notRateVars

RateNext ==
    \/ \E k \in ClientKeys, cost \in Costs, skip \in BOOLEAN : RateRequest(k, cost, skip)
    \/ \E k \in ClientKeys : RateRefill(k)

\* what the bucket decides for the last request
BucketDecides ==
    /\ rlOut.before >= rlOut.cost =>
         /\ rlOut.next
         /\ rlOut.after = rlOut.before - rlOut.cost
    /\ rlOut.before < rlOut.cost =>
         /\ ~rlOut.next
         /\ rlOut.after = rlOut.before
         /\ rlOut.status = StatusCode
         /\ "Retry-After" \in rlOut.headers

\* C23 as stated: every request is admitted only against the bucket of its client.
C23_AsStated == rlOut.handled => BucketDecides

\* C23: a request for which the skip option does not hold is admitted only
\* against the bucket of its client key (cost c is deducted and next() is
\* called when the bucket holds at least c tokens; otherwise the answer is
\* statusCode, 429 by default, with a Retry-After header, and next() is not
\* called); a request for which skip holds is passed on and pays nothing.
C23_TokenBucket ==
    /\ (rlOut.handled /\ ~rlOut.skipped) => BucketDecides
    /\ (rlOut.handled /\ rlOut.skipped) => (rlOut.next /\ rlOut.after = rlOut.before)
    /\ \A k \in ClientKeys : buckets[k] \in 0..rlOptions.capacity

\* a client that has spent tokens is refused a request it cannot pay for
C23_Witness ==
    /\ rlOut.handled
    /\ ~rlOut.skipped
    /\ rlOut.before >= 1
    /\ rlOut.before < rlOut.cost
    /\ ~rlOut.next
    /\ rlOut.status = 429
    /\ "Retry-After" \in rlOut.headers

\* ---------------------------------------------------------------------------
\* HttpException: exceptions thrown while a request is handled (Ergenecore)
\* ---------------------------------------------------------------------------

\* where the code handling a request can throw
ThrowSites == {"handler", "middleware"}

\* the status codes of the documented examples
ExceptionStatuses == {400, 404, 429, 503}

\* the second argument of HttpException: a string or a JSON object
ExceptionBodies ==
    { [type |-> "string", value |-> "Not Found"],
      [type |-> "object", value |-> "{error: Invalid input, field: email}"] }

\* the optional third argument of HttpException, a ResponseInit
NoOptions == [headers |-> {}, statusText |-> ""]

ExceptionOptions ==
    { NoOptions,
      [headers |-> {<<"Retry-After", "60">>}, statusText |-> ""],
      [headers |-> {}, statusText |-> "Maintenance Mode"] }

\* new HttpException(status, body, options?)
HttpException(status, body, options) ==
    [status |-> status, body |-> body, options |-> options]

HttpExceptions ==
    { HttpException(st, b, o) : st \in ExceptionStatuses, b \in ExceptionBodies,
                                o \in ExceptionOptions }

NoException == [status |-> 0, body |-> [type |-> "none", value |-> ""], options |-> NoOptions]

\* context.send(user): the response of a handler that returns
Sent == [status |-> 200, body |-> [kind |-> "json", value |-> "user"],
         headers |-> {}, statusText |-> ""]

\* a string body is sent as text, an object body as JSON
ResponseBody(body) ==
    [kind |-> IF body.type = "string" THEN "text" ELSE "json", value |-> body.value]

MutToResponse(e) ==
    [status |-> 500, body |-> ResponseBody(e.body),
     headers |-> {}, statusText |-> ""]

\* the adapter converts a detected HttpException to an HTTP response
ToResponse(e) ==
    [status |-> e.status, body |-> ResponseBody(e.body),
     headers |-> e.options.headers, statusText |-> e.options.statusText]

ExcFresh ==
    /\ excSite = "none"
    /\ excPending = NoException
    /\ excLog = << >>

ExcInit == ExcFresh

\* a request arrives and its middleware or route handler throws e: none of
\* them has a try/catch, so the exception leaves the handler
ExcThrow(site, e) ==
    /\ excSite = "none"
    /\ Len(excLog) < MaxExcRequests
    /\ excSite' = site
    /\ excPending' = e
    /\ UNCHANGED excLog
    /\ UNCHANGED notExcVars

\* the adapter detects the HttpException that left the handler and answers
ExcConvert ==
    /\ excSite \in ThrowSites
    /\ excLog' = Append(excLog, [site |-> excSite, thrown |-> excPending,
                                 response |-> ToResponse(excPending)])
    /\ excSite' = "none"
    /\ excPending' = NoException
    /\ UNCHANGED notExcVars

\* a request whose middleware calls next() and whose handler returns
ExcReturn ==
    /\ excSite = "none"
    /\ Len(excLog) < MaxExcRequests
    /\ excLog' = Append(excLog, [site |-> "none", thrown |-> NoException,
                                 response |-> Sent])
    /\ UNCHANGED <<excSite, excPending>>
    /\ UNCHANGED notExcVars

ExcNext ==
    \/ \E site \in ThrowSites, e \in HttpExceptions : ExcThrow(site, e)
    \/ ExcConvert
    \/ ExcReturn

ComponentTypes == {"controller", "service", "middleware", "config", "websocket"}

DefaultSuffix(type) ==
    CASE type = "controller" -> "Controller"
      [] type = "service" -> "Service"
      [] type = "middleware" -> "Middleware"
      [] type = "config" -> "Config"
      [] type = "websocket" -> "Namespace"

\* names given to asena generate
InputNames == {"User", "Auth"}

\* custom suffixes of the documented examples
CustomSuffixes == {"Ctrl", "Svc"}

\* the JSON values a key of the suffixes object can have; Undefined is a key
\* that the object does not have
Undefined == [kind |-> "undefined", bool |-> FALSE, str |-> ""]
JsonBool(b) == [kind |-> "boolean", bool |-> b, str |-> ""]
JsonString(s) == [kind |-> "string", bool |-> FALSE, str |-> s]

TypeValues ==
    {Undefined} \cup {JsonBool(b) : b \in BOOLEAN} \cup {JsonString(s) : s \in CustomSuffixes}

EmptyObject == [t \in ComponentTypes |-> Undefined]

\* the suffixes field of .asena/config.json: missing, a boolean or an object
SuffixesMissing == [kind |-> "missing", bool |-> FALSE, obj |-> EmptyObject]
SuffixesBool(b) == [kind |-> "boolean", bool |-> b, obj |-> EmptyObject]
SuffixesObject(o) == [kind |-> "object", bool |-> FALSE, obj |-> o]

SuffixConfigs ==
    {SuffixesMissing} \cup {SuffixesBool(b) : b \in BOOLEAN}
        \cup {SuffixesObject(o) : o \in [ComponentTypes -> TypeValues]}

NoGenerated == [type |-> "none", name |-> "", config |-> SuffixesMissing, className |-> ""]

\* .asena/config.json as asena create wrote it or as it was edited by hand
SuffixInit ==
    /\ suffixes \in SuffixConfigs
    /\ generated = NoGenerated

SuffixFresh ==
    /\ suffixes = SuffixesBool(TRUE)
    /\ generated = NoGenerated

MutResolveSuffix(cfg, type) ==
    IF cfg.kind = "object" /\ cfg.obj[type].kind = "string"
    THEN cfg.obj[type].str
    ELSE DefaultSuffix(type)

\* the suffix appended to the class name of a generated component
ResolveSuffix(cfg, type) ==
    CASE cfg.kind = "missing" -> DefaultSuffix(type)
      [] cfg.kind = "boolean" -> IF cfg.bool THEN DefaultSuffix(type) ELSE ""
      [] cfg.kind = "object" ->
           LET v == cfg.obj[type] IN
           CASE v.kind = "undefined" -> DefaultSuffix(type)
             [] v.kind = "boolean" -> IF v.bool THEN DefaultSuffix(type) ELSE ""
             [] v.kind = "string" -> v.str

\* the class name asena generate writes for a name and a component type
ClassName(name, cfg, type) == name \o ResolveSuffix(cfg, type)

\* asena generate <type> with the name given at the prompt
Generate(type, name) ==
    /\ generated' = [type |-> type, name |-> name, config |-> suffixes,
                     className |-> ClassName(name, suffixes, type)]
    /\ UNCHANGED suffixes
    /\ UNCHANGED notSuffixVars

SuffixNext ==
    \E type \in ComponentTypes, name \in InputNames : Generate(type, name)

\* C25: the suffix of a generated class is the default suffix when the
\* suffixes field is missing, true, or an object in which the type's key is
\* undefined or true; it is empty when the field or the type's key is false;
\* it is the type's string otherwise.  asena g c User gives UserController,
\* User and UserCtrl for true, false and { controller: "Ctrl" }.
C25_SuffixResolution ==
    generated.type \in ComponentTypes =>
        LET c == generated.config
            t == generated.type
            v == c.obj[t]
            useDefault == \/ c.kind = "missing"
                          \/ c.kind = "boolean" /\ c.bool
                          \/ c.kind = "object" /\ v.kind = "undefined"
                          \/ c.kind = "object" /\ v.kind = "boolean" /\ v.bool
            noSuffix == \/ c.kind = "boolean" /\ ~c.bool
                        \/ c.kind = "object" /\ v.kind = "boolean" /\ ~v.bool
            custom == c.kind = "object" /\ v.kind = "string"
        IN  /\ useDefault => generated.className = generated.name \o DefaultSuffix(t)
            /\ noSuffix => generated.className = generated.name
            /\ custom => generated.className = generated.name \o v.str
            /\ useDefault \/ noSuffix \/ custom
            /\ (t = "controller" /\ generated.name = "User") =>
                   /\ c = SuffixesBool(TRUE) => generated.className = "UserController"
                   /\ c = SuffixesBool(FALSE) => generated.className = "User"
                   /\ (custom /\ v.str = "Ctrl") => generated.className = "UserCtrl"

C25_Witness ==
    /\ generated.type = "controller"
    /\ generated.name = "User"
    /\ generated.config.kind = "object"
    /\ generated.config.obj["controller"] = JsonString("Ctrl")
    /\ generated.config.obj["config"] = Undefined
    /\ generated.className = "UserCtrl"

\* ---------------------------------------------------------------------------
\* UserService.createUser and its unit test
\* ---------------------------------------------------------------------------

\* how the service under test was built: by the container, which sets both
\* @Inject fields, or by the test, new UserService() with only
\* service['userRepo'] assigned
Wirings == {"container", "test"}

UserNames == {"John", "Jane", "Joe"}

UserEmails == {"john@example.com", "jane@example.com", "joe@example.com"}

\* the argument of createUser
UserData == [name : UserNames, email : UserEmails]

\* what userRepo.findByEmail resolves to: null or the stored user
FindResults == {"null", "existing"}

NoUser == [id |-> "", name |-> "", email |-> ""]

Pending == [kind |-> "pending", value |-> NoUser, message |-> ""]
Resolved(user) == [kind |-> "resolved", value |-> user, message |-> ""]
Rejected(message) == [kind |-> "rejected", value |-> NoUser, message |-> message]

\* userRepo.create(data): Promise.resolve({ id: '123', ...data })
RepoCreate(d) == [id |-> "123", name |-> d.name, email |-> d.email]

\* the emailService field: set by the container only
EmailServiceField(wiring) == IF wiring = "container" THEN "EmailService" ELSE "undefined"

UserSvcInit ==
    /\ usWiring \in Wirings
    /\ usData \in UserData
    /\ usFind \in FindResults
    /\ usPc = "findByEmail"
    /\ usUser = NoUser
    /\ usCalls = << >>
    /\ usOutcome = Pending

UserSvcFresh ==
    /\ usWiring = "container"
    /\ usData = [name |-> "John", email |-> "john@example.com"]
    /\ usFind = "null"
    /\ usPc = "findByEmail"
    /\ usUser = NoUser
    /\ usCalls = << >>
    /\ usOutcome = Pending

\* const existing = await this.userRepo.findByEmail(data.email);
\* if (existing) throw new Error('Email already exists')
CreateUserFind ==
    /\ usPc = "findByEmail"
    /\ usCalls' = Append(usCalls, "userRepo.findByEmail")
    /\ IF usFind = "existing"
       THEN /\ usOutcome' = Rejected("Email already exists")
            /\ usPc' = "done"
       ELSE /\ usPc' = "create"
            /\ UNCHANGED usOutcome
    /\ UNCHANGED <<usWiring, usData, usFind, usUser>>
    /\ UNCHANGED notUsersvcVars

\* const user = await this.userRepo.create(data)
CreateUserCreate ==
    /\ usPc = "create"
    /\ usCalls' = Append(usCalls, "userRepo.create")
    /\ usUser' = RepoCreate(usData)
    /\ usPc' = "sendEmail"
    /\ UNCHANGED <<usWiring, usData, usFind, usOutcome>>
    /\ UNCHANGED notUsersvcVars

\* await this.emailService.sendEmail(user.email, 'Welcome!', ...): a call on
\* an undefined field throws a TypeError, which rejects createUser
CreateUserSendEmail ==
    /\ usPc = "sendEmail"
    /\ IF EmailServiceField(usWiring) = "undefined"
       THEN /\ usOutcome' = Rejected("TypeError")
            /\ usPc' = "done"
            /\ UNCHANGED usCalls
       ELSE /\ usCalls' = Append(usCalls, "emailService.sendEmail")
            /\ usPc' = "return"
            /\ UNCHANGED usOutcome
    /\ UNCHANGED <<usWiring, usData, usFind, usUser>>
    /\ UNCHANGED notUsersvcVars

\* return user
CreateUserReturn ==
    /\ usPc = "return"
    /\ usOutcome' = Resolved(usUser)
    /\ usPc' = "done"
    /\ UNCHANGED <<usWiring, usData, usFind, usUser, usCalls>>
    /\ UNCHANGED notUsersvcVars

UserSvcNext ==
    \/ CreateUserFind
    \/ CreateUserCreate
    \/ CreateUserSendEmail
    \/ CreateUserReturn

\* C26: createUser(data) of a UserService in which only userRepo was replaced
\* by a mock resolves to the record of userRepo.create(data) when
\* findByEmail resolved to null, and rejects with 'Email already exists' when
\* it resolved to a user.
C26_CreateUserMocked ==
    (usPc = "done" /\ usWiring = "test") =>
        /\ usFind = "null" =>
               usOutcome = Resolved([id |-> "123", name |-> usData.name, email |-> usData.email])
        /\ usFind = "existing" => usOutcome = Rejected("Email already exists")

\* the test's first case: findByEmail resolved to null, create was called,
\* and createUser rejected at the call on the missing emailService
C26_Witness ==
    /\ usPc = "done"
    /\ usWiring = "test"
    /\ usFind = "null"
    /\ usData = [name |-> "John", email |-> "john@example.com"]
    /\ usCalls = <<"userRepo.findByEmail", "userRepo.create">>
    /\ usOutcome = Rejected("TypeError")

\* ---------------------------------------------------------------------------
\* ExceptionMapper.map behind ServerConfig.onError
\* ---------------------------------------------------------------------------

\* the classes of the errors that reach onError
ErrorClasses == {"HTTPException", "ZodError", "AuthError", "Error", "TypeError"}

HttpStatuses == {401, 404}

ErrorMessages == {"User not found", "Invalid credentials"}

\* the issues of a ZodError: a path into the validated value and a message
ZodIssues ==
    { [path |-> <<"email">>, message |-> "Invalid email format"],
      [path |-> <<"user", "password">>, message |-> "String must contain at least 8 character(s)"],
      [path |-> << >>, message |-> "Required"] }

IssueLists == UNION { [1..n -> ZodIssues] : n \in 0..MaxIssues }

\* an error: status is read of an HTTPException only, errors of a ZodError only
MappedErrors ==
    { [class |-> "HTTPException", status |-> st, message |-> m, errors |-> << >>] :
        st \in HttpStatuses, m \in ErrorMessages }
    \cup { [class |-> "ZodError", status |-> 0, message |-> "Validation", errors |-> is] :
             is \in IssueLists }
    \cup { [class |-> c, status |-> 0, message |-> m, errors |-> << >>] :
             c \in {"AuthError", "Error", "TypeError"}, m \in ErrorMessages }

\* error instanceof cls
InstanceOf(error, cls) == error.class = cls

RECURSIVE Join(_)
\* err.path.join('.')
Join(path) ==
    IF Len(path) = 0 THEN ""
    ELSE IF Len(path) = 1 THEN path[1]
    ELSE path[1] \o "." \o Join(Tail(path))

\* error.errors.map((err) => ({ field: err.path.join('.'), message: err.message }))
FieldErrors(errors) ==
    [i \in 1..Len(errors) |-> [field |-> Join(errors[i].path), message |-> errors[i].message]]

\* context.send(data, status)
Send(success, message, errors, status) ==
    [success |-> success, message |-> message, errors |-> errors, status |-> status]

MutMap(error) ==
    IF InstanceOf(error, "HTTPException")
    THEN Send("", error.message, << >>, error.status)
    ELSE IF InstanceOf(error, "ZodError")
    THEN Send("false", "Validation error", FieldErrors(error.errors), 400)
    ELSE Send("false", "Internal server error", << >>, 500)

\* ExceptionMapper.map(error, context); success is "" for the text body of an
\* HTTPException
Map(error) ==
    IF InstanceOf(error, "HTTPException")
    THEN Send("", error.message, << >>, error.status)
    ELSE IF InstanceOf(error, "ZodError")
    THEN Send("false", "Validation error", FieldErrors(error.errors), 400)
    ELSE IF InstanceOf(error, "AuthError")
    THEN Send("false", "Authentication failed", << >>, 401)
    ELSE Send("false", "Internal server error", << >>, 500)

MapperFresh == mapLog = << >>

MapperInit == MapperFresh

\* ServerConfig.onError(error, context): return this.mapper.map(error, context)
OnError(error) ==
    /\ Len(mapLog) < MaxMapped
    /\ mapLog' = Append(mapLog, [error |-> error, response |-> Map(error)])
    /\ UNCHANGED notMapperVars

MapperNext == \E error \in MappedErrors : OnError(error)

UserIds == {"1", "2", "42"}

\* the values crypto.randomUUID() can return
JobIds == {"uuid-a", "uuid-b", "uuid-c"}

\* `user:${userId}`
UserRoom(userId) == "user:" \o userId

\* a message passed to this.jobs.to(room, message)
JobMessage(room, type, id) == [event |-> "to", room |-> room, type |-> type, jobId |-> id]

\* performLongOperation is entered or left
JobStep(event) == [event |-> event, room |-> "", type |-> "", jobId |-> ""]

MutTerminalType(succeeded) == "job_completed"

\* the message that follows performLongOperation
TerminalType(succeeded) == IF succeeded THEN "job_completed" ELSE "job_failed"

JobFresh ==
    /\ jobPc = "idle"
    /\ jobUser = ""
    /\ jobId = ""
    /\ jobOutcome = "none"
    /\ jobSendFailed = FALSE
    /\ jobTrace = << >>

JobInit == JobFresh

\* runLongJob(userId): const jobId = crypto.randomUUID()
RunLongJob(userId, id) ==
    /\ jobPc = "idle"
    /\ jobUser' = userId
    /\ jobId' = id
    /\ jobPc' = "notifyStarted"
    /\ UNCHANGED <<jobOutcome, jobSendFailed, jobTrace>>
    /\ UNCHANGED notJobVars

\* await this.jobs.to(`user:${userId}`, { type: 'job_started', jobId }): a
\* send that rejects is outside the try and rejects runLongJob
NotifyStarted(ok) ==
    /\ jobPc = "notifyStarted"
    /\ IF ok
       THEN /\ jobTrace' = Append(jobTrace, JobMessage(UserRoom(jobUser), "job_started", jobId))
            /\ jobPc' = "perform"
            /\ UNCHANGED jobSendFailed
       ELSE /\ jobSendFailed' = TRUE
            /\ jobPc' = "rejected"
            /\ UNCHANGED jobTrace
    /\ UNCHANGED <<jobUser, jobId, jobOutcome>>
    /\ UNCHANGED notJobVars

\* try { await this.performLongOperation() ...: the operation begins
PerformBegin ==
    /\ jobPc = "perform"
    /\ jobTrace' = Append(jobTrace, JobStep("begin"))
    /\ jobPc' = "running"
    /\ UNCHANGED <<jobUser, jobId, jobOutcome, jobSendFailed>>
    /\ UNCHANGED notJobVars

\* the operation returns, or throws into the catch block
PerformEnd(succeeded) ==
    /\ jobPc = "running"
    /\ jobTrace' = Append(jobTrace, JobStep("end"))
    /\ jobOutcome' = IF succeeded THEN "succeeded" ELSE "threw"
    /\ jobPc' = "notify"
    /\ UNCHANGED <<jobUser, jobId, jobSendFailed>>
    /\ UNCHANGED notJobVars

\* the send that follows the operation: job_completed inside the try, so a
\* rejected job_completed send enters the catch block, which sends
\* job_failed; job_failed inside the catch, where a rejected send rejects
\* runLongJob
NotifyTerminal(ok) ==
    /\ jobPc \in {"notify", "caught"}
    /\ LET type == IF jobPc = "caught" THEN "job_failed"
                   ELSE TerminalType(jobOutcome = "succeeded")
       IN IF ok
          THEN /\ jobTrace' = Append(jobTrace, JobMessage(UserRoom(jobUser), type, jobId))
               /\ jobPc' = "done"
               /\ UNCHANGED jobSendFailed
          ELSE /\ jobSendFailed' = TRUE
               /\ jobPc' = IF type = "job_completed" THEN "caught" ELSE "rejected"
               /\ UNCHANGED jobTrace
    /\ UNCHANGED <<jobUser, jobId, jobOutcome>>
    /\ UNCHANGED notJobVars

JobNext ==
    \/ \E userId \in UserIds, id \in JobIds : RunLongJob(userId, id)
    \/ \E ok \in BOOLEAN : NotifyStarted(ok)
    \/ PerformBegin
    \/ \E succeeded \in BOOLEAN : PerformEnd(succeeded)
    \/ \E ok \in BOOLEAN : NotifyTerminal(ok)

\* positions of the trace holding an event of the given kind
TracePositions(event) == {i \in 1..Len(jobTrace) : jobTrace[i].event = event}

\* positions of the trace holding a terminal message
TerminalPositions ==
    {i \in TracePositions("to") : jobTrace[i].type \in {"job_completed", "job_failed"}}

\* C29: in a run of runLongJob(userId) whose sends succeed, 'job_started' is
\* sent to room user:<userId> before performLongOperation begins; once the
\* run is over exactly one terminal message was sent, after the operation
\* ended, to the same room and with the same jobId: 'job_completed' if the
\* operation succeeded, 'job_failed' if it threw.
C29_JobNotifications ==
    ~jobSendFailed =>
        /\ \A b \in TracePositions("begin") :
               /\ b > 1
               /\ jobTrace[1] = JobMessage("user:" \o jobUser, "job_started", jobId)
        /\ Cardinality(TerminalPositions) <= 1
        /\ \A t \in TerminalPositions :
               /\ \E e \in TracePositions("end") : e < t
               /\ jobTrace[t].room = "user:" \o jobUser
               /\ jobTrace[t].jobId = jobId
               /\ jobOutcome = "succeeded" => jobTrace[t].type = "job_completed"
               /\ jobOutcome = "threw" => jobTrace[t].type = "job_failed"
        /\ jobPc = "done" => Cardinality(TerminalPositions) = 1

C29_Witness ==
    /\ jobPc = "done"
    /\ ~jobSendFailed
    /\ jobUser = "42"
    /\ jobOutcome = "threw"
    /\ Len(jobTrace) = 4
    /\ jobTrace[4] = JobMessage("user:42", "job_failed", jobId)

\* ---------------------------------------------------------------------------
\* OrderService.createOrder
\* ---------------------------------------------------------------------------

ProductIds == {"p1", "p2"}

\* the items argument: up to MaxItems products
ItemLists == UNION { [1..n -> ProductIds] : n \in 0..MaxItems }

\* the products inventoryService.checkStock finds available
StockStates == SUBSET ProductIds

\* a call on one of the injected services
OrderCall(name, product) == [call |-> name, product |-> product]

OrderFresh ==
    /\ ordItems = << >>
    /\ ordStock = ProductIds
    /\ ordPc = "idle"
    /\ ordIndex = 0
    /\ ordCalls = << >>
    /\ ordOutcome = "pending"

\* createOrder(items) is called with a stock in which some products may be
\* out
OrderInit ==
    /\ ordItems \in ItemLists
    /\ ordStock \in StockStates
    /\ ordPc = "checkStock"
    /\ ordIndex = 1
    /\ ordCalls = << >>
    /\ ordOutcome = "pending"

MutAfterCheck(available, index) == IF index >= Len(ordItems) THEN "charge" ELSE "checkStock"

\* where createOrder goes after checkStock answered for the item at index
AfterCheck(available, index) ==
    IF ~available THEN "rejected"
    ELSE IF index >= Len(ordItems) THEN "charge"
    ELSE "checkStock"

\* for (const item of items): checkStock; if (!available) throw
CheckStock ==
    /\ ordPc = "checkStock"
    /\ IF ordIndex > Len(ordItems)
       THEN /\ ordPc' = "charge"
            /\ UNCHANGED <<ordIndex, ordCalls, ordOutcome>>
       ELSE LET product == ordItems[ordIndex]
                to == AfterCheck(product \in ordStock, ordIndex)
            IN /\ ordCalls' = Append(ordCalls, OrderCall("checkStock", product))
               /\ ordPc' = to
               /\ ordIndex' = ordIndex + 1
               /\ ordOutcome' = IF to = "rejected" THEN "out of stock" ELSE ordOutcome
    /\ UNCHANGED <<ordItems, ordStock>>
    /\ UNCHANGED notOrderVars

\* const total = await this.calculateTotal(items);
\* const payment = await this.paymentService.charge(total): returns or throws
Charge(ok) ==
    /\ ordPc = "charge"
    /\ ordCalls' = Append(ordCalls, OrderCall("charge", ""))
    /\ ordPc' = IF ok THEN "create" ELSE "rejected"
    /\ ordOutcome' = IF ok THEN ordOutcome ELSE "charge failed"
    /\ UNCHANGED <<ordItems, ordStock, ordIndex>>
    /\ UNCHANGED notOrderVars

\* const order = await this.orderRepo.create({...}): returns or throws
CreateOrderRecord(ok) ==
    /\ ordPc = "create"
    /\ ordCalls' = Append(ordCalls, OrderCall("create", ""))
    /\ ordPc' = IF ok THEN "decrementStock" ELSE "rejected"
    /\ ordIndex' = 1
    /\ ordOutcome' = IF ok THEN ordOutcome ELSE "create failed"
    /\ UNCHANGED <<ordItems, ordStock>>
    /\ UNCHANGED notOrderVars

\* for (const item of items) decrementStock(...); return order
DecrementStock ==
    /\ ordPc = "decrementStock"
    /\ IF ordIndex > Len(ordItems)
       THEN /\ ordPc' = "done"
            /\ ordOutcome' = "order"
            /\ UNCHANGED <<ordIndex, ordCalls>>
       ELSE /\ ordCalls' = Append(ordCalls, OrderCall("decrementStock", ordItems[ordIndex]))
            /\ ordIndex' = ordIndex + 1
            /\ UNCHANGED <<ordPc, ordOutcome>>
    /\ UNCHANGED <<ordItems, ordStock>>
    /\ UNCHANGED notOrderVars

OrderNext ==
    \/ CheckStock
    \/ \E ok \in BOOLEAN : Charge(ok)
    \/ \E ok \in BOOLEAN : CreateOrderRecord(ok)
    \/ DecrementStock

\* positions of ordCalls holding a call of the given name
CallPositions(name) == {i \in 1..Len(ordCalls) : ordCalls[i].call = name}

\* C30: createOrder charges only after every item passed checkStock, creates
\* the order only after charge returned, decrements stock only after the
\* order was created; when an item is out of stock nothing is charged,
\* created or decremented.
C30_OrderedSideEffects ==
    /\ \A c \in CallPositions("charge") :
           /\ c = Len(ordItems) + 1
           /\ \A i \in 1..Len(ordItems) :
                  /\ ordCalls[i] = OrderCall("checkStock", ordItems[i])
                  /\ ordItems[i] \in ordStock
    /\ \A r \in CallPositions("create") :
           /\ CallPositions("charge") = {r - 1}
           /\ ordOutcome # "charge failed"
    /\ \A d \in CallPositions("decrementStock") :
           /\ \E r \in CallPositions("create") : r < d
           /\ ordOutcome # "create failed"
    /\ (\E i \in 1..Len(ordItems) : ordItems[i] \notin ordStock) =>
           /\ CallPositions("charge") = {}
           /\ CallPositions("create") = {}
           /\ CallPositions("decrementStock") = {}
    /\ Cardinality(CallPositions("charge")) <= 1
    /\ Cardinality(CallPositions("create")) <= 1

C30_Witness ==
    /\ ordPc = "done"
    /\ Len(ordItems) = 2
    /\ ordItems[1] # ordItems[2]
    /\ Len(ordCalls) = 6
    /\ ordCalls[3].call = "charge"
    /\ ordCalls[4].call = "create"
    /\ ordCalls[6] = OrderCall("decrementStock", ordItems[2])

\* the parts of the application that the specification of part g does not
\* exercise stay as they are before their first use
RestFresh(g) ==
    /\ IF g = "pattern" THEN TRUE ELSE PatternFresh
    /\ IF g = "config" THEN TRUE ELSE ConfigFresh
    /\ IF g = "rate" THEN TRUE ELSE RateFresh
    /\ IF g = "exc" THEN TRUE ELSE ExcFresh
    /\ IF g = "suffix" THEN TRUE ELSE SuffixFresh
    /\ IF g = "usersvc" THEN TRUE ELSE UserSvcFresh
    /\ IF g = "mapper" THEN TRUE ELSE MapperFresh
    /\ IF g = "job" THEN TRUE ELSE JobFresh
    /\ IF g = "order" THEN TRUE ELSE OrderFresh

Init ==
    /\ HttpInit
    /\ wsMw = 0
    /\ WsFresh
    /\ DiFresh
    /\ ScopeFresh
    /\ StrategyFresh
    /\ GraphFresh("ulak")
    /\ UlakFresh
    /\ RestFresh("none")

Next == HttpNext

\* one HTTP request through the middleware chain of its route
Spec == Init /\ [][Next]_vars

\* an application before its first request and connection, whose WebSocket service
\* declares n middlewares (the WebSocket guide's examples run on Ergenecore), and
\* whose container has registered the components of r
AppInitWith(n, r) ==
    /\ adapter = "Ergenecore"
    /\ HttpIdle
    /\ wsMw = n
    /\ WsFresh
    /\ DiFresh
    /\ ScopeFresh
    /\ registry = r
    /\ strategyField = NoStrategyField

AppInit(n) == AppInitWith(n, << >>) /\ GraphFresh("ulak") /\ UlakFresh /\ RestFresh("none")

\* that application, but for the part g
Quiet(g) == AppInitWith(0, << >>) /\ GraphFresh("ulak") /\ UlakFresh /\ RestFresh(g)

InitWsUpgrade == \E n \in 1..MaxWsMw : AppInit(n)

InitWsRooms == AppInit(0)

InitDi == AppInit(0)

InitScopes == AppInit(0)

InitStrategy ==
    \E r \in Registries :
      AppInitWith(0, r) /\ GraphFresh("ulak") /\ UlakFresh /\ RestFresh("none")

InitGraph ==
    \E d \in Designs :
      AppInitWith(0, << >>) /\ GraphFresh(d) /\ UlakFresh /\ RestFresh("none")

InitUlak == AppInitWith(0, << >>) /\ GraphFresh("ulak") /\ UlakInit /\ RestFresh("none")

InitPattern == Quiet("pattern") /\ PatternInit

InitConfig == Quiet("config") /\ ConfigInit

InitRate == Quiet("rate") /\ RateInit

InitExc == Quiet("exc") /\ ExcInit

InitSuffix == Quiet("suffix") /\ SuffixInit

InitUserSvc == Quiet("usersvc") /\ UserSvcInit

InitMapper == Quiet("mapper") /\ MapperInit

InitJob == Quiet("job") /\ JobInit

InitOrder == Quiet("order") /\ OrderInit

\* WebSocket connections of a namespace that declares middlewares
SpecWsUpgrade == InitWsUpgrade /\ [][WsUpgradeNext]_vars

\* WebSocket connections of a namespace without middlewares, its rooms and broadcasts
SpecWsRooms == InitWsRooms /\ [][WsRoomsNext]_vars

\* the container creating the instances of the application's components
SpecDi == InitDi /\ [][DiNext]_vars

\* the container resolving the @Inject fields of singleton and prototype services
SpecScopes == InitScopes /\ [][ScopeNext]_vars

\* the container setting @Strategy fields from the registered implementations
SpecStrategy == InitStrategy /\ [][StrategyNext]_vars

\* the container resolving the injection graph, with and without Ulak
SpecGraph == InitGraph /\ [][GraphNext]_vars

\* calls of the Ulak core API and of scoped namespaces
SpecUlak == InitUlak /\ [][UlakNext]_vars

\* requests to an application whose @Config class declares pattern-based middlewares
SpecPattern == InitPattern /\ [][PatternNext]_vars

\* an application that defines several @Config classes
SpecConfig == InitConfig /\ [][ConfigNext]_vars

\* requests passing a RateLimiterMiddleware
SpecRate == InitRate /\ [][RateNext]_vars

\* requests whose handler or middleware throws an HttpException
SpecExc == InitExc /\ [][ExcNext]_vars

\* asena generate under each content of the suffixes field
SpecSuffix == InitSuffix /\ [][SuffixNext]_vars

\* one call of UserService.createUser
SpecUserSvc == InitUserSvc /\ [][UserSvcNext]_vars

\* errors reaching the onError hook that delegates to ExceptionMapper
SpecMapper == InitMapper /\ [][MapperNext]_vars

\* one run of JobService.runLongJob
SpecJob == InitJob /\ [][JobNext]_vars

\* one call of OrderService.createOrder
SpecOrder == InitOrder /\ [][OrderNext]_vars

\* an application whose middlewares arrays are on HTTP routes or on a namespace
InitArrays == Init \/ InitWsUpgrade

ArraysNext ==
    \/ wsMw = 0 /\ HttpNext
    \/ wsMw > 0 /\ WsUpgradeNext

\* one HTTP request, or the upgrades of a namespace with middlewares
SpecArrays == InitArrays /\ [][ArraysNext]_vars

=============================================================================
